---------------------------- MODULE Spec2Model ----------------------------
(***************************************************************************)
(* Sync & conflict-resolution engine of smart-scripts (sg).                *)
(*                                                                         *)
(* The model follows src/src/utils/common.ts (the `git` object:            *)
(* stashChanges, stashPop, updateLocalBaseBranch, syncWithBase) and the    *)
(* conflict resolver it calls.  The repository is the part of git's state  *)
(* those functions read and write: the checked-out branch, HEAD, the       *)
(* rebase/merge-in-progress marker, the index and working tree of a few    *)
(* paths, the unmerged entries and the stash list.                         *)
(*                                                                         *)
(* Every git command is run through runCommand, which rejects on a         *)
(* non-zero exit unless ignoreExitCode is set; the exit status of a        *)
(* command is an input of the environment and is drawn with \E.            *)
(***************************************************************************)
EXTENDS Integers, Sequences, FiniteSets, TLC

(***************************************************************************)
(* Bounds and vocabulary                                                   *)
(***************************************************************************)
\* commits of the feature branch that a rebase replays
MaxCommits == 2

Paths == {"a", "b"}

\* file contents: Absent (no file), Base (as committed), Staged (the staged
\* version), Work (the working-tree version), Marked (with conflict
\* markers), Resolved (written by the resolver)
Absent   == "absent"
Base     == "base"
Staged   == "staged"
Work     == "work"
Marked   == "marked"
Resolved == "resolved"

BaseBranch    == "main"
FeatureBranch == "feature"

\* porcelain status codes of unmerged entries
UnmergedCodes == {"UU", "AA", "DD", "DU", "UD", "AU", "UA"}
NoCode == ""

VARIABLES
  \* ---- the repository ----
  curBranch,     \* branch that is checked out
  headAt,        \* "orig": HEAD as before the sync, "mid": detached during a rebase, "synced"
  op,            \* "none" | "rebase" | "merge": operation in progress
  todo,          \* commits the rebase in progress still has to replay
  um,            \* [Paths -> status code of the unmerged entry, or NoCode]
  hd, idx, wt,   \* [Paths -> content] in HEAD, in the index, in the working tree
  stash,         \* the stash list, most recent first
  localBase,     \* local base branch: "absent" | "uptodate" | "behind" | "ahead" | "diverged"
  \* ---- one invocation ----
  pc,            \* position of the running function
  strategy,      \* "rebase" | "merge"
  interactive,   \* options.interactive
  commits,       \* commits of the current branch not on the base
  stashResult,   \* {stashed, stagedFiles} of the running frame
  resolveResult, \* ResolveResult of the last resolver pass
  outcome,       \* what the invocation returned or threw
  \* ---- observation ----
  cmds,          \* repository-mutating commands and operator prompts, in order of issue
  logged,        \* lines written to the operator
  pops,          \* stashPop calls of the invocation
  popFailed,     \* a stashPop call returned success=false
  popThrew,      \* a stashPop call threw
  created,       \* stash entries pushed by stashChanges in the invocation
  rounds,        \* conflict rounds entered
  applied,       \* stash pops that applied an entry and removed it from the list
  lastPop,       \* the last stashPop call: how it went and what it returned
  orig,          \* index and working tree when the invocation started
  \* ---- the conflict parser ----
  source,        \* the conflict blocks a content was written from, if it was
  content,       \* lines of a file: content.split("\n")
  conflicts,     \* ConflictBlock[] returned by parseConflicts
  \* ---- the conflict resolver ----
  disk,          \* the conflicted files: what can be read, what was written and staged
  rs,            \* the frame of resolveConflictsInteractively / resolveFileConflicts
  \* ---- the push ----
  pf,            \* the frame of performPush: its arguments, prompts and result
  \* ---- the command handlers ----
  hf             \* the frame of a command handler: its options, what it wrote, how it ended

repoVars  == <<curBranch, headAt, op, todo, um, hd, idx, wt, stash, localBase>>
frameVars == <<pc, strategy, interactive, commits, stashResult, resolveResult, outcome>>
obsVars   == <<cmds, logged, pops, popFailed, popThrew, created, rounds, applied, lastPop, orig>>
parseVars == <<source, content, conflicts, disk, rs>>
pushVars  == <<pf>>
cliVars   == <<hf>>
vars      == <<repoVars, frameVars, obsVars, parseVars, pushVars, cliVars>>

(***************************************************************************)
(* Working-tree queries                                                    *)
(***************************************************************************)
NoUnmerged == [p \in Paths |-> NoCode]

HasUnmerged(u) == \E p \in Paths : u[p] # NoCode

\* git diff --cached --quiet  (exit 1); an unmerged entry is a difference
hasStagedChanges(h, i, u) == \E p \in Paths : i[p] # h[p] \/ u[p] # NoCode

\* git diff --quiet  (exit 1)
hasUnstagedChanges(i, w, u) ==
  \E p \in Paths : (i[p] # Absent /\ w[p] # i[p]) \/ u[p] # NoCode

\* git ls-files --others --exclude-standard
hasUntrackedFiles(i, w) == \E p \in Paths : i[p] = Absent /\ w[p] # Absent

hasAnyChanges(h, i, w, u) ==
  hasStagedChanges(h, i, u) \/ hasUnstagedChanges(i, w, u) \/ hasUntrackedFiles(i, w)

\* git diff --name-only --cached
StagedPaths(h, i, u) == {p \in Paths : i[p] # h[p] \/ u[p] # NoCode}

\* status.includes("UU") || status.includes("AA") || status.includes("DD")
StatusHasConflicts(u) == \E p \in Paths : u[p] \in {"UU", "AA", "DD"}

\* git diff --name-only --diff-filter=U
getConflictedFiles(u) == {p \in Paths : u[p] # NoCode}

\* git rev-parse --abbrev-ref HEAD : "HEAD" while a rebase has HEAD detached
getCurrentBranch == IF op = "rebase" THEN "HEAD" ELSE curBranch

(***************************************************************************)
(* The mutable part of the repository as one value, so that a function     *)
(* can run several commands in a row                                       *)
(***************************************************************************)
Repo == [headAt |-> headAt, op |-> op, todo |-> todo, um |-> um,
         idx |-> idx, wt |-> wt, stash |-> stash]

SetRepo(g) ==
  /\ headAt' = g.headAt /\ op' = g.op /\ todo' = g.todo /\ um' = g.um
  /\ idx' = g.idx /\ wt' = g.wt /\ stash' = g.stash

(***************************************************************************)
(* git stash push -u / git stash pop [--index]                             *)
(***************************************************************************)
StashEntry(g, auto) == [hd |-> hd, ix |-> g.idx, wt |-> g.wt, at |-> g.headAt, auto |-> auto]

\* the entry changes path p
Touches(e, p) == e.ix[p] # e.hd[p] \/ e.wt[p] # e.hd[p]

\* index and working tree after the entry applied with its index
IndexApplied(e) ==
  [ix |-> [p \in Paths |-> IF e.ix[p] # e.hd[p] THEN e.ix[p] ELSE hd[p]],
   wt |-> [p \in Paths |-> IF Touches(e, p) THEN e.wt[p] ELSE hd[p]]]

\* index and working tree after the entry applied without its index: the
\* working tree is restored, and only the files new in the stash stay in
\* the index
PlainApplied(e) ==
  [ix |-> [p \in Paths |->
             IF hd[p] = Absent /\ e.ix[p] # Absent /\ e.wt[p] # Absent
             THEN e.wt[p] ELSE hd[p]],
   wt |-> [p \in Paths |-> IF Touches(e, p) THEN e.wt[p] ELSE hd[p]]]

\* a pop can be tried: there is an entry and the index has no unmerged entry
CanApply(g) == g.stash # <<>> /\ ~HasUnmerged(g.um)

\* the entry was taken on another HEAD than the present one
Moved(g, e) == e.at # g.headAt

\* working tree after a pop that stopped on conflicts in the paths of C
ConflictApplied(e, C) ==
  [um |-> [p \in Paths |-> IF p \in C THEN "UU" ELSE NoCode],
   ix |-> hd,
   wt |-> [p \in Paths |-> IF p \in C THEN Marked
                           ELSE IF Touches(e, p) THEN e.wt[p] ELSE hd[p]]]

(***************************************************************************)
(* git.stashChanges                                                        *)
(***************************************************************************)
\* the outcomes of stashChanges on repository g; pushOk is the exit status
\* of `git stash push`, which fails on an index with unmerged entries
stashChangesOutcomes(g) ==
  IF ~hasAnyChanges(hd, g.idx, g.wt, g.um)
  THEN {[threw |-> FALSE, stashed |-> FALSE, stagedFiles |-> {}, g |-> g, cmds |-> <<>>]}
  ELSE {[threw |-> ~pushOk, stashed |-> pushOk,
         stagedFiles |-> StagedPaths(hd, g.idx, g.um),
         g |-> IF pushOk
               THEN [g EXCEPT !.idx = hd, !.wt = hd,
                              !.stash = <<StashEntry(g, TRUE)>> \o g.stash]
               ELSE g,
         cmds |-> <<"stash push">>]
        : pushOk \in (IF HasUnmerged(g.um) THEN {FALSE} ELSE BOOLEAN)}

(***************************************************************************)
(* git.stashPop                                                            *)
(***************************************************************************)
PopOk    == [success |-> TRUE,  message |-> "Changes restored from stash"]
PopStill == [success |-> FALSE, message |-> "Conflicts when restoring changes. Your changes are still in stash."]
PopError == [success |-> FALSE, message |-> "error"]

\* PopCatch with the conflict case reported as a success
PopCatchReportsSuccess(g, issued, how) ==
  {[threw |-> ~statusOk, how |-> how,
    res |-> IF StatusHasConflicts(g.um) THEN [PopStill EXCEPT !.success = TRUE] ELSE PopError,
    g |-> g, cmds |-> issued]
   : statusOk \in BOOLEAN}

\* the catch block of stashPop: the status query and the message it picks
PopCatch(g, issued, how) ==
  {[threw |-> ~statusOk, how |-> how,
    res |-> IF StatusHasConflicts(g.um) THEN PopStill ELSE PopError,
    g |-> g, cmds |-> issued]
   : statusOk \in BOOLEAN}

\* the re-staging of every tracked path, recorded or not
ExistingFilesAll(stagedFiles, ix) == {p \in Paths : ix[p] # Absent}

\* paths re-staged on the fallback path: the recorded paths that
\* `git ls-files --error-unmatch` finds in the index
ExistingFiles(stagedFiles, ix) == {p \in stagedFiles : ix[p] # Absent}

\* the command issued when the index-preserving pop failed
FallbackPop == "stash pop"

stashPopOutcomes(g, stagedFiles) ==
  LET e == Head(g.stash)
      \* git stash pop --index succeeded
      byIndex ==
        IF CanApply(g)
        THEN {[threw |-> FALSE, how |-> "index", res |-> PopOk,
               g |-> [g EXCEPT !.idx = IndexApplied(e).ix, !.wt = IndexApplied(e).wt,
                               !.stash = Tail(g.stash)],
               cmds |-> <<"stash pop --index">>]}
        ELSE {}
      \* --index failed, plain pop succeeded, re-staging
      plain == PlainApplied(e)
      popped == [g EXCEPT !.idx = plain.ix, !.wt = plain.wt, !.stash = Tail(g.stash)]
      existing == ExistingFiles(stagedFiles, plain.ix)
      added == [p \in Paths |-> IF p \in existing THEN plain.wt[p] ELSE plain.ix[p]]
      byPlain ==
        IF CanApply(g)
        THEN IF existing = {}
             THEN {[threw |-> FALSE, how |-> "plain", res |-> PopOk, g |-> popped,
                    cmds |-> <<"stash pop --index", FallbackPop>>]}
             ELSE {[threw |-> FALSE, how |-> "plain", res |-> PopOk,
                    g |-> [popped EXCEPT !.idx = added],
                    cmds |-> <<"stash pop --index", FallbackPop, "add">>]}
                  \cup
                  \* git add failed: caught by the outer catch
                  PopCatch(popped, <<"stash pop --index", FallbackPop, "add">>, "plain")
        ELSE {}
      \* both pops failed, the plain one on conflicts
      byConflict ==
        IF CanApply(g) /\ Moved(g, e)
        THEN UNION {PopCatch([g EXCEPT !.um = ConflictApplied(e, C).um,
                                       !.idx = ConflictApplied(e, C).ix,
                                       !.wt = ConflictApplied(e, C).wt],
                             <<"stash pop --index", FallbackPop>>, "conflict")
                    : C \in {D \in SUBSET Paths : D # {} /\ \A p \in D : Touches(e, p)}}
        ELSE {}
      \* both pops failed without touching the tree
      byError == PopCatch(g, <<"stash pop --index", FallbackPop>>, "error")
  IN byIndex \cup byPlain \cup byConflict \cup byError

(***************************************************************************)
(* Initial repositories                                                    *)
(***************************************************************************)
\* (HEAD, index, working tree) of one path
PathStates ==
  { <<Base, Base, Base>>,       \* unchanged
    <<Base, Base, Work>>,       \* modified, not staged
    <<Base, Base, Absent>>,     \* deleted, not staged
    <<Base, Staged, Staged>>,   \* modified and staged
    <<Base, Staged, Work>>,     \* staged, then modified again
    <<Base, Staged, Base>>,     \* staged, then reverted in the working tree
    <<Base, Absent, Absent>>,   \* deletion staged
    <<Absent, Absent, Absent>>, \* no such file
    <<Absent, Absent, Work>>,   \* untracked
    <<Absent, Staged, Staged>>, \* new file, added
    <<Absent, Staged, Work>> }  \* new file, added, then modified

\* an entry the operator stashed before running the tool
UserEntry ==
  [hd |-> [p \in Paths |-> Base], ix |-> [p \in Paths |-> Base],
   wt |-> [p \in Paths |-> Work], at |-> "older", auto |-> FALSE]

NoResult   == [success |-> FALSE, filesResolved |-> 0, filesSkipped |-> 0, aborted |-> FALSE]
NoOutcome  == [kind |-> "none", success |-> FALSE, hasConflicts |-> FALSE, message |-> ""]
NoStash    == [stashed |-> FALSE, stagedFiles |-> {}]
NoPop      == [how |-> "none", threw |-> FALSE, success |-> FALSE, kept |-> TRUE]

\* one call of stashPop: the repository and the observations of the call
Popped(r) ==
  /\ SetRepo(r.g)
  /\ pops' = pops + 1
  /\ popFailed' = (popFailed \/ (~r.threw /\ ~r.res.success))
  /\ popThrew' = (popThrew \/ r.threw)
  /\ applied' = IF r.how \in {"index", "plain"} THEN applied + 1 ELSE applied
  /\ lastPop' = [how |-> r.how, threw |-> r.threw,
                 success |-> ~r.threw /\ r.res.success, kept |-> r.g.stash = stash]

NotPopped(g) ==
  /\ SetRepo(g)
  /\ UNCHANGED <<pops, popFailed, popThrew, applied, lastPop>>

InitRepo ==
  /\ curBranch \in {FeatureBranch, BaseBranch}
  /\ headAt = "orig"
  /\ op = "none"
  /\ todo = 0
  /\ um = NoUnmerged
  /\ \E s \in [Paths -> PathStates] :
       /\ hd  = [p \in Paths |-> s[p][1]]
       /\ idx = [p \in Paths |-> s[p][2]]
       /\ wt  = [p \in Paths |-> s[p][3]]
  /\ stash \in {<<>>, <<UserEntry>>}
  /\ localBase \in {"absent", "uptodate", "behind", "ahead", "diverged"}

\* no file has been read
NoSource == [built |-> FALSE, head |-> <<>>, blocks |-> <<>>]
\* no resolver pass is running
IdleFrame ==
  [results |-> <<>>, fi |-> 0, i |-> 0, skipped |-> 0, resolvedCount |-> 0,
   filesResolved |-> 0, filesSkipped |-> 0, prompts |-> 0, warned |-> 0,
   answers |-> <<>>, stale |-> FALSE, kind |-> "none", ret |-> NoResult]
NoPass ==
  /\ disk = <<>>
  /\ rs = IdleFrame

\* no push is running
IdlePush ==
  [useForce |-> FALSE, setUpstream |-> FALSE, autoYes |-> FALSE,
   syncStrategy |-> "none", remoteBranchExists |-> TRUE,
   error |-> "", asked |-> <<>>, result |-> "none"]
NoPush == pf = IdlePush

\* no command handler is running
IdleHandler ==
  [command |-> "none", dryRun |-> FALSE, autoYes |-> FALSE, skipPush |-> FALSE,
   skipPR |-> FALSE, lintStagedCmd |-> FALSE, stageMode |-> "all",
   autoSync |-> FALSE, autoCommit |-> FALSE, syncStrategy |-> "none",
   unpushed |-> FALSE, setUpstream |-> FALSE, stashCreated |-> FALSE,
   written |-> {}, exit |-> "none"]
NoHandler == hf = IdleHandler

NoFile ==
  /\ NoPass
  /\ source = NoSource
  /\ content = <<"">>
  /\ conflicts = <<>>

InitObs ==
  /\ cmds = <<>>
  /\ logged = {}
  /\ pops = 0
  /\ popFailed = FALSE
  /\ popThrew = FALSE
  /\ created = 0
  /\ rounds = 0
  /\ applied = 0
  /\ lastPop = NoPop
  /\ orig = [idx |-> idx, wt |-> wt, stash |-> stash]

(***************************************************************************)
(* Capture immediately followed by restore                                 *)
(***************************************************************************)
RTInit ==
  /\ InitRepo
  /\ curBranch = FeatureBranch
  /\ localBase = "uptodate"
  /\ pc = "rt_capture"
  /\ strategy = "rebase"
  /\ interactive = TRUE
  /\ commits = 1
  /\ stashResult = NoStash
  /\ resolveResult = NoResult
  /\ outcome = NoOutcome
  /\ InitObs
  /\ NoFile
  /\ NoPush
  /\ NoHandler

\* const r = await git.stashChanges()
RTCapture ==
  /\ pc = "rt_capture"
  /\ \E r \in stashChangesOutcomes(Repo) :
       /\ SetRepo(r.g)
       /\ cmds' = cmds \o r.cmds
       /\ stashResult' = [stashed |-> r.stashed, stagedFiles |-> r.stagedFiles]
       /\ created' = IF r.stashed THEN created + 1 ELSE created
       /\ pc' = IF r.threw THEN "rt_threw" ELSE IF r.stashed THEN "rt_restore" ELSE "rt_clean"
  /\ UNCHANGED <<curBranch, hd, localBase>>
  /\ UNCHANGED <<strategy, interactive, commits, resolveResult, outcome>>
  /\ UNCHANGED <<logged, pops, popFailed, popThrew, rounds, applied, lastPop, orig>>
  /\ UNCHANGED <<parseVars, pushVars, cliVars>>

\* await git.stashPop(r.stagedFiles)
RTRestore ==
  /\ pc = "rt_restore"
  /\ \E r \in stashPopOutcomes(Repo, stashResult.stagedFiles) :
       /\ Popped(r)
       /\ cmds' = cmds \o r.cmds
       /\ outcome' = IF r.threw THEN [NoOutcome EXCEPT !.kind = "throw"]
                     ELSE [NoOutcome EXCEPT !.kind = "return", !.success = r.res.success,
                                            !.message = r.res.message]
       /\ pc' = "rt_done"
  /\ UNCHANGED <<curBranch, hd, localBase>>
  /\ UNCHANGED <<strategy, interactive, commits, stashResult, resolveResult>>
  /\ UNCHANGED <<logged, created, rounds, orig>>
  /\ UNCHANGED <<parseVars, pushVars, cliVars>>

RTNext == RTCapture \/ RTRestore

SpecRT == RTInit /\ [][RTNext]_vars

(***************************************************************************)
(* git.updateLocalBaseBranch                                               *)
(***************************************************************************)
\* the update that looks at the behind count only
updateLocalBaseBranchWhenBehind(cur, lb) ==
  IF cur = BaseBranch \/ lb \in {"absent", "uptodate", "ahead"}
  THEN {[updated |-> FALSE, message |-> "Local base already up to date",
         localBase |-> lb, cmds |-> <<>>]}
  ELSE {[updated |-> ffOk,
         message |-> IF ffOk THEN "Local base updated" ELSE "Could not update local base",
         localBase |-> IF ffOk THEN "uptodate" ELSE lb,
         cmds |-> <<"fetch base:base">>] : ffOk \in BOOLEAN}

\* outcomes on a local base branch in state lb when `cur` is checked out;
\* ffOk is the exit status of `git fetch origin base:base`
updateLocalBaseBranchOutcomes(cur, lb) ==
  IF cur = BaseBranch
  THEN {[updated |-> FALSE, message |-> "On base branch, skipping local update",
         localBase |-> lb, cmds |-> <<>>]}
  ELSE IF lb = "absent"
  THEN {[updated |-> FALSE, message |-> "Local base branch doesn't exist",
         localBase |-> lb, cmds |-> <<>>]}
  ELSE IF lb = "behind"          \* behind > 0 && ahead === 0
  THEN {[updated |-> ffOk,
         message |-> IF ffOk THEN "Local base updated" ELSE "Could not update local base",
         localBase |-> IF ffOk THEN "uptodate" ELSE lb,
         cmds |-> <<"fetch base:base">>] : ffOk \in BOOLEAN}
  ELSE IF lb = "diverged"        \* behind > 0 && ahead > 0
  THEN {[updated |-> FALSE, message |-> "Local base has unpushed commit(s), skipping update",
         localBase |-> lb, cmds |-> <<>>]}
  ELSE {[updated |-> FALSE, message |-> "Local base already up to date",
         localBase |-> lb, cmds |-> <<>>]}

(***************************************************************************)
(* git rebase / git merge and their --abort and --continue                 *)
(***************************************************************************)
\* codes given to the entries a stopped rebase/merge leaves unmerged
ConflictCodes == {"UU", "AA", "DD", "DU"}

\* the working tree holds conflict markers for the both-modified and
\* both-added entries only
MarkedCode(c) == c \in {"UU", "AA"}

\* sets of paths that can be left unmerged with code c: both sides added a
\* file HEAD does not have, or both sides changed a file HEAD has
ConflictSets(c) ==
  {C \in (SUBSET Paths) \ {{}} :
     \A p \in C : IF c = "AA" THEN hd[p] = Absent ELSE hd[p] = Base}

\* the repository stopped on conflicts of code c in the paths of C
Stopped(g, strat, C, c, left) ==
  [g EXCEPT !.op = strat,
            !.headAt = IF strat = "rebase" THEN "mid" ELSE g.headAt,
            !.todo = left,
            !.um = [p \in Paths |-> IF p \in C THEN c ELSE NoCode],
            !.idx = hd,
            !.wt = [p \in Paths |-> IF p \in C /\ MarkedCode(c) THEN Marked
                                    ELSE IF p \in C /\ c = "DD" THEN Absent
                                    ELSE hd[p]]]

\* the operation finished: HEAD is the synced commit and the tree is clean
Finished(g) ==
  [g EXCEPT !.op = "none", !.headAt = "synced", !.todo = 0,
            !.um = NoUnmerged, !.idx = hd, !.wt = hd]

\* git rebase origin/base  |  git merge origin/base --no-edit
\* on a clean tree: success, stop on conflicts, or another failure
applyOutcomes(g, strat, n) ==
  {[threw |-> FALSE, g |-> Finished(g)]}
  \cup
  UNION {{[threw |-> TRUE, g |-> Stopped(g, strat, C, c, left)]
            : C \in ConflictSets(c),
              left \in (IF strat = "rebase" THEN 0..(n - 1) ELSE {0})}
         : c \in ConflictCodes}
  \cup
  {[threw |-> TRUE, g |-> g]}

\* git rebase --abort | git merge --abort, exit status ignored
abortOutcomes(g) ==
  (IF g.op # "none"
   THEN {[g EXCEPT !.op = "none", !.headAt = "orig", !.todo = 0,
                   !.um = NoUnmerged, !.idx = hd, !.wt = hd]}
   ELSE {})
  \cup {g}

\* git rebase --continue | git commit --no-edit
continueOutcomes(g) ==
  (IF g.op # "none" /\ ~HasUnmerged(g.um)
   THEN {[threw |-> FALSE, g |-> Finished(g)]}
        \cup
        UNION {{[threw |-> TRUE, g |-> Stopped(g, g.op, C, c, left)]
                  : C \in ConflictSets(c),
                    left \in (IF g.op = "rebase" THEN 0..(g.todo - 1) ELSE {})}
               : c \in ConflictCodes}
   ELSE {})
  \cup {[threw |-> TRUE, g |-> g]}

(***************************************************************************)
(* resolveConflictsInteractively, seen from syncWithBase                   *)
(***************************************************************************)
PathOrder == <<"a", "b">>

\* files getFileConflicts returns: conflicted and holding at least one block
FilesWithBlocks(g) == {p \in Paths : g.um[p] # NoCode /\ g.wt[p] = Marked}

\* one pass over the files in order; ch[p] is what the operator does with
\* the blocks of p: "all" (every block resolved), "skip" (a block skipped),
\* "abort"
RECURSIVE resolvePass(_, _, _, _)
resolvePass(g, ch, i, acc) ==
  IF i > Len(PathOrder)
  THEN [g |-> g, prompts |-> acc.prompts,
        res |-> [success |-> acc.filesSkipped = 0, filesResolved |-> acc.filesResolved,
                 filesSkipped |-> acc.filesSkipped, aborted |-> FALSE]]
  ELSE LET p == PathOrder[i] IN
       IF p \notin FilesWithBlocks(g)
       THEN resolvePass(g, ch, i + 1, acc)
       ELSE IF ch[p] = "abort"
       THEN [g |-> g, prompts |-> acc.prompts + 1,
             res |-> [success |-> FALSE, filesResolved |-> acc.filesResolved,
                      filesSkipped |-> acc.filesSkipped, aborted |-> TRUE]]
       ELSE IF ch[p] = "skip"
       THEN resolvePass(g, ch, i + 1,
                        [acc EXCEPT !.filesSkipped = @ + 1, !.prompts = @ + 1])
       ELSE resolvePass([g EXCEPT !.um[p] = NoCode, !.idx[p] = Resolved, !.wt[p] = Resolved],
                        ch, i + 1,
                        [acc EXCEPT !.filesResolved = @ + 1, !.prompts = @ + 1])

resolveOutcomes(g) ==
  IF FilesWithBlocks(g) = {}
  THEN {[g |-> g, prompts |-> 0,
         res |-> [success |-> TRUE, filesResolved |-> 0, filesSkipped |-> 0, aborted |-> FALSE]]}
  ELSE {resolvePass(g, ch, 1, [filesResolved |-> 0, filesSkipped |-> 0, prompts |-> 0])
          : ch \in [Paths -> {"all", "skip", "abort"}]}

\* hasUnresolvedConflicts answering true whatever the index holds
hasUnresolvedConflictsAlways(g) == {TRUE}

\* hasUnresolvedConflicts: the query, or false when the query fails
hasUnresolvedConflictsOutcomes(g) == {HasUnmerged(g.um), FALSE}

(***************************************************************************)
(* git.syncWithBase                                                        *)
(***************************************************************************)
Returned(s, c, m) == [kind |-> "return", success |-> s, hasConflicts |-> c, message |-> m]
Thrown == [kind |-> "throw", success |-> FALSE, hasConflicts |-> FALSE, message |-> "error"]

MsgOnBase       == "Already on base branch"
MsgSynced       == "Rebased onto | Merged origin/base"
MsgPopFailed    == "Rebased | Merged successfully, but <popResult.message>"
MsgAborted      == "Rebase | Merge aborted. Your changes have been restored."
MsgResAborted   == "Resolution aborted. Your changes have been restored."
MsgResolved     == "Conflicts resolved! Rebased onto | Merged origin/base"
MsgPartial      == "Some conflicts need manual resolution. Run 'git <strategy> --continue' after resolving."
MsgManual       == "Conflicts need manual resolution. Run 'git <strategy> --continue' after resolving."
MsgNonInteractive == "Conflicts detected during <strategy>. Please resolve manually with: git <strategy> origin/base"
MsgError        == "<error.message>"

LogStashed      == "Stashed local changes"
LogRestored     == "Restored local changes"
LogNotePop      == "Note: Your uncommitted changes are stashed. After resolving conflicts, run: git stash pop"
LogNoteContinue == "Note: Your uncommitted changes are stashed. After resolving remaining conflicts: git <strategy> --continue, git stash pop"
LogMore         == "More conflicts found in subsequent commits"
LogWarnBase     == "warn: local base has unpushed commits"

Init ==
  /\ InitRepo
  /\ pc = "entry"
  /\ strategy \in {"rebase", "merge"}
  /\ interactive \in BOOLEAN
  /\ commits \in 1..MaxCommits
  /\ stashResult = NoStash
  /\ resolveResult = NoResult
  /\ outcome = NoOutcome
  /\ InitObs
  /\ NoFile
  /\ NoPush
  /\ NoHandler

\* the shortcut test made against the remote-tracking name
onBaseBranchRemoteName(currentBranch) == currentBranch = "origin/main"

\* line 495: currentBranch === baseBranch
onBaseBranch(currentBranch) == currentBranch = BaseBranch

\* lines 492-503: the base-branch shortcut, then stashChanges
Enter ==
  /\ pc = "entry"
  /\ IF onBaseBranch(getCurrentBranch)
     THEN /\ outcome' = Returned(TRUE, FALSE, MsgOnBase)
          /\ pc' = "done"
          /\ UNCHANGED <<repoVars, stashResult, cmds, logged, created>>
     ELSE \E r \in stashChangesOutcomes(Repo) :
            /\ SetRepo(r.g)
            /\ cmds' = cmds \o r.cmds
            /\ stashResult' = [stashed |-> r.stashed, stagedFiles |-> r.stagedFiles]
            /\ created' = IF r.stashed THEN created + 1 ELSE created
            /\ logged' = IF r.stashed THEN logged \cup {LogStashed} ELSE logged
            /\ outcome' = IF r.threw THEN Thrown ELSE outcome
            /\ pc' = IF r.threw THEN "done" ELSE "try"
            /\ UNCHANGED <<curBranch, hd, localBase>>
  /\ UNCHANGED <<strategy, interactive, commits, resolveResult>>
  /\ UNCHANGED <<pops, popFailed, popThrew, rounds, applied, lastPop, orig>>
  /\ UNCHANGED <<parseVars, pushVars, cliVars>>

\* lines 506-521: fetch, updateLocalBaseBranch, rebase or merge
Apply ==
  /\ pc = "try"
  /\ \E fetchOk \in BOOLEAN :
       IF ~fetchOk
       THEN /\ cmds' = cmds \o <<"fetch">>
            /\ pc' = "catch"
            /\ UNCHANGED <<repoVars, logged>>
       ELSE \E u \in updateLocalBaseBranchOutcomes(getCurrentBranch, localBase),
               r \in applyOutcomes(Repo, strategy, commits) :
              /\ localBase' = u.localBase
              /\ logged' = IF ~u.updated /\ u.message = "Local base has unpushed commit(s), skipping update"
                           THEN logged \cup {LogWarnBase} ELSE logged
              /\ SetRepo(r.g)
              /\ cmds' = cmds \o <<"fetch">> \o u.cmds \o <<strategy>>
              /\ pc' = IF r.threw THEN "catch" ELSE "applied"
              /\ UNCHANGED <<curBranch, hd>>
  /\ UNCHANGED <<strategy, interactive, commits, stashResult, resolveResult, outcome>>
  /\ UNCHANGED <<pops, popFailed, popThrew, created, rounds, applied, lastPop, orig>>
  /\ UNCHANGED <<parseVars, pushVars, cliVars>>

\* lines 523-538: the pop of the success path
RestoreAfterApply ==
  /\ pc = "applied"
  /\ IF stashResult.stashed
     THEN \E r \in stashPopOutcomes(Repo, stashResult.stagedFiles) :
            /\ Popped(r)
            /\ cmds' = cmds \o r.cmds
            /\ IF r.threw
               THEN pc' = "catch" /\ UNCHANGED <<outcome, logged>>
               ELSE IF ~r.res.success
               THEN /\ outcome' = Returned(FALSE, FALSE, MsgPopFailed)
                    /\ pc' = "done"
                    /\ UNCHANGED logged
               ELSE /\ outcome' = Returned(TRUE, FALSE, MsgSynced)
                    /\ logged' = logged \cup {LogRestored}
                    /\ pc' = "done"
     ELSE /\ outcome' = Returned(TRUE, FALSE, MsgSynced)
          /\ pc' = "done"
          /\ NotPopped(Repo)
          /\ UNCHANGED <<cmds, logged>>
  /\ UNCHANGED <<curBranch, hd, localBase>>
  /\ UNCHANGED <<strategy, interactive, commits, stashResult, resolveResult>>
  /\ UNCHANGED <<created, rounds, orig>>
  /\ UNCHANGED <<parseVars, pushVars, cliVars>>

\* lines 539-545: the status query and the classification of the failure
Classify ==
  /\ pc = "catch"
  /\ \E statusOk \in BOOLEAN :
       IF ~statusOk
       THEN outcome' = Thrown /\ pc' = "done" /\ UNCHANGED rounds
       ELSE /\ UNCHANGED outcome
            /\ IF StatusHasConflicts(um)
               THEN /\ pc' = IF interactive THEN "prompt" ELSE "nonint"
                    /\ rounds' = rounds + 1
               ELSE pc' = "other" /\ UNCHANGED rounds
  /\ UNCHANGED <<repoVars, strategy, interactive, commits, stashResult, resolveResult>>
  /\ UNCHANGED <<cmds, logged, pops, popFailed, popThrew, created, applied, lastPop, orig>>
  /\ UNCHANGED <<parseVars, pushVars, cliVars>>

\* abort the operation, pop if stashed, return: lines 573-589, 596-611, 684-699
AbortAndRestore(issued, msg) ==
  \E a \in abortOutcomes(Repo) :
    IF stashResult.stashed
    THEN \E r \in stashPopOutcomes(a, stashResult.stagedFiles) :
           /\ Popped(r)
           /\ cmds' = cmds \o issued \o <<strategy \o " --abort">> \o r.cmds
           /\ IF r.threw
              THEN outcome' = Thrown /\ UNCHANGED logged
              ELSE /\ outcome' = Returned(FALSE, TRUE, msg)
                   /\ logged' = logged \cup {LogRestored}
    ELSE /\ NotPopped(a)
         /\ cmds' = cmds \o issued \o <<strategy \o " --abort">>
         /\ outcome' = Returned(FALSE, TRUE, msg)
         /\ UNCHANGED logged

\* the operator answers "a" / "abort"
ChooseAbort ==
  /\ pc = "prompt"
  /\ AbortAndRestore(<<"prompt">>, MsgAborted)
  /\ pc' = "done"
  /\ UNCHANGED <<curBranch, hd, localBase>>
  /\ UNCHANGED <<strategy, interactive, commits, stashResult, resolveResult>>
  /\ UNCHANGED <<created, rounds, orig>>
  /\ UNCHANGED <<parseVars, pushVars, cliVars>>

\* the manual branch restoring the stash before it returns
ChooseManualRestores ==
  /\ pc = "prompt"
  /\ IF stashResult.stashed
     THEN \E r \in stashPopOutcomes(Repo, stashResult.stagedFiles) :
            /\ Popped(r)
            /\ cmds' = cmds \o <<"prompt">> \o r.cmds
     ELSE /\ NotPopped(Repo)
          /\ cmds' = cmds \o <<"prompt">>
  /\ outcome' = Returned(FALSE, TRUE, MsgManual)
  /\ pc' = "done"
  /\ UNCHANGED <<curBranch, hd, localBase>>
  /\ UNCHANGED <<strategy, interactive, commits, stashResult, resolveResult>>
  /\ UNCHANGED <<logged, created, rounds, orig>>
  /\ UNCHANGED <<parseVars, pushVars, cliVars>>

\* the operator answers anything else than resolve or abort: lines 665-681
ChooseManual ==
  /\ pc = "prompt"
  /\ cmds' = cmds \o <<"prompt">>
  /\ logged' = IF stashResult.stashed THEN logged \cup {LogNotePop} ELSE logged
  /\ outcome' = Returned(FALSE, TRUE, MsgManual)
  /\ pc' = "done"
  /\ UNCHANGED <<repoVars, strategy, interactive, commits, stashResult, resolveResult>>
  /\ UNCHANGED <<pops, popFailed, popThrew, created, rounds, applied, lastPop, orig>>
  /\ UNCHANGED <<parseVars, pushVars, cliVars>>

\* the operator answers "r" / "resolve": the resolver pass, line 592
ChooseResolve ==
  /\ pc = "prompt"
  /\ \E listOk \in BOOLEAN :
       IF ~listOk
       THEN \* the listing of getFileConflicts failed
            /\ outcome' = Thrown
            /\ pc' = "done"
            /\ cmds' = cmds \o <<"prompt">>
            /\ UNCHANGED <<repoVars, resolveResult>>
       ELSE \E r \in resolveOutcomes(Repo) :
            /\ SetRepo(r.g)
            /\ resolveResult' = r.res
            /\ cmds' = cmds \o <<"prompt">> \o [i \in 1..r.prompts |-> "prompt"]
            /\ pc' = "resolved"
            /\ UNCHANGED <<curBranch, hd, localBase, outcome>>
  /\ UNCHANGED <<strategy, interactive, commits, stashResult>>
  /\ UNCHANGED <<logged, pops, popFailed, popThrew, created, rounds, applied, lastPop, orig>>
  /\ UNCHANGED <<parseVars, pushVars, cliVars>>

\* resolveResult.aborted: lines 594-612
ResolveAborted ==
  /\ pc = "resolved"
  /\ resolveResult.aborted
  /\ AbortAndRestore(<<>>, MsgResAborted)
  /\ pc' = "done"
  /\ UNCHANGED <<curBranch, hd, localBase>>
  /\ UNCHANGED <<strategy, interactive, commits, stashResult, resolveResult>>
  /\ UNCHANGED <<created, rounds, orig>>
  /\ UNCHANGED <<parseVars, pushVars, cliVars>>

\* lines 651-664: the note and the partial-resolution outcome
PartialOutcome ==
  /\ logged' = IF stashResult.stashed THEN logged \cup {LogNoteContinue} ELSE logged
  /\ outcome' = Returned(FALSE, TRUE, MsgPartial)
  /\ pc' = "done"

\* the partial resolution treated as an abort by the operator
PartialResolutionAborts ==
  /\ pc = "resolved"
  /\ ~resolveResult.aborted
  /\ ~resolveResult.success
  /\ AbortAndRestore(<<>>, MsgPartial)
  /\ pc' = "done"
  /\ UNCHANGED <<curBranch, hd, localBase>>
  /\ UNCHANGED <<strategy, interactive, commits, stashResult, resolveResult>>
  /\ UNCHANGED <<created, rounds, orig>>
  /\ UNCHANGED <<parseVars, pushVars, cliVars>>

\* resolveResult.success is false and the pass was not aborted
PartialResolution ==
  /\ pc = "resolved"
  /\ ~resolveResult.aborted
  /\ ~resolveResult.success
  /\ PartialOutcome
  /\ UNCHANGED <<repoVars, strategy, interactive, commits, stashResult, resolveResult>>
  /\ UNCHANGED <<cmds, pops, popFailed, popThrew, created, rounds, applied, lastPop, orig>>
  /\ UNCHANGED <<parseVars, pushVars, cliVars>>

\* the catch of the continue block going back to the classification of the
\* failure instead of calling syncWithBase from the top
ContinueFailedReclassifies(g, issued) ==
  \E more \in hasUnresolvedConflictsOutcomes(g) :
    /\ cmds' = cmds \o issued
    /\ IF more
       THEN /\ logged' = logged \cup {LogMore}
            /\ pc' = "catch"
            /\ UNCHANGED <<outcome, interactive, stashResult>>
       ELSE /\ outcome' = Thrown
            /\ pc' = "done"
            /\ UNCHANGED <<logged, interactive, stashResult>>

\* lines 638-647: the catch of the continue block
ContinueFailed(g, issued) ==
  \E more \in hasUnresolvedConflictsOutcomes(g) :
    /\ cmds' = cmds \o issued
    /\ IF more
       THEN \* return this.syncWithBase(baseBranch, strategy, { interactive: true })
            /\ logged' = logged \cup {LogMore}
            /\ pc' = "entry"
            /\ interactive' = TRUE
            /\ stashResult' = NoStash
            /\ UNCHANGED outcome
       ELSE /\ outcome' = Thrown
            /\ pc' = "done"
            /\ UNCHANGED <<logged, interactive, stashResult>>

\* resolveResult.success: lines 614-649
ContinueAfterResolve ==
  /\ pc = "resolved"
  /\ ~resolveResult.aborted
  /\ resolveResult.success
  /\ \E still \in hasUnresolvedConflictsOutcomes(Repo) :
       IF still
       THEN /\ PartialOutcome
            /\ NotPopped(Repo)
            /\ UNCHANGED <<cmds, interactive, stashResult>>
       ELSE \E c \in continueOutcomes(Repo) :
              IF c.threw
              THEN NotPopped(c.g) /\ ContinueFailed(c.g, <<strategy \o " --continue">>)
              ELSE IF stashResult.stashed
              THEN \E r \in stashPopOutcomes(c.g, stashResult.stagedFiles) :
                     /\ Popped(r)
                     /\ IF r.threw
                        THEN ContinueFailed(r.g, <<strategy \o " --continue">> \o r.cmds)
                        ELSE /\ cmds' = cmds \o <<strategy \o " --continue">> \o r.cmds
                             /\ logged' = IF r.res.success THEN logged \cup {LogRestored} ELSE logged
                             /\ outcome' = Returned(TRUE, FALSE, MsgResolved)
                             /\ pc' = "done"
                             /\ UNCHANGED <<interactive, stashResult>>
              ELSE /\ NotPopped(c.g)
                   /\ cmds' = cmds \o <<strategy \o " --continue">>
                   /\ outcome' = Returned(TRUE, FALSE, MsgResolved)
                   /\ pc' = "done"
                   /\ UNCHANGED <<logged, interactive, stashResult>>
  /\ UNCHANGED <<curBranch, hd, localBase>>
  /\ UNCHANGED <<strategy, commits, resolveResult>>
  /\ UNCHANGED <<created, rounds, orig>>
  /\ UNCHANGED <<parseVars, pushVars, cliVars>>

\* lines 682-700: conflicts, options.interactive false
NonInteractive ==
  /\ pc = "nonint"
  /\ AbortAndRestore(<<>>, MsgNonInteractive)
  /\ pc' = "done"
  /\ UNCHANGED <<curBranch, hd, localBase>>
  /\ UNCHANGED <<strategy, interactive, commits, stashResult, resolveResult>>
  /\ UNCHANGED <<created, rounds, orig>>
  /\ UNCHANGED <<parseVars, pushVars, cliVars>>

\* lines 703-711: a failure that is not a conflict
OtherError ==
  /\ pc = "other"
  /\ IF stashResult.stashed
     THEN \E r \in stashPopOutcomes(Repo, stashResult.stagedFiles) :
            /\ Popped(r)
            /\ cmds' = cmds \o r.cmds
            /\ outcome' = IF r.threw THEN Thrown ELSE Returned(FALSE, FALSE, MsgError)
     ELSE /\ NotPopped(Repo)
          /\ outcome' = Returned(FALSE, FALSE, MsgError)
          /\ UNCHANGED cmds
  /\ pc' = "done"
  /\ UNCHANGED <<curBranch, hd, localBase>>
  /\ UNCHANGED <<strategy, interactive, commits, stashResult, resolveResult>>
  /\ UNCHANGED <<logged, created, rounds, orig>>
  /\ UNCHANGED <<parseVars, pushVars, cliVars>>

Next ==
  \/ Enter
  \/ Apply
  \/ RestoreAfterApply
  \/ Classify
  \/ ChooseAbort
  \/ ChooseManual
  \/ ChooseResolve
  \/ ResolveAborted
  \/ PartialResolution
  \/ ContinueAfterResolve
  \/ NonInteractive
  \/ OtherError

Spec == Init /\ [][Next]_vars

\* the initial states with an empty stash list in which
\* updateLocalBaseBranch either has nothing to do or runs its fast-forward
\* fetch; the other states of the local base branch issue no command
LiveInit == Init /\ localBase \in {"uptodate", "behind"} /\ stash = <<>>

\* every git command returns and every prompt is answered: the running
\* invocation always takes its next step
SpecLive == LiveInit /\ [][Next]_vars /\ WF_vars(Next)

(***************************************************************************)
(* Properties of syncWithBase, stashChanges and stashPop                   *)
(***************************************************************************)
Issued(c) == \E i \in DOMAIN cmds : cmds[i] = c

PopCommands == {"stash pop --index", "stash pop"}
AbortCommands == {"rebase --abort", "merge --abort"}

\* the invocation ended: it returned or threw
Ended == pc = "done"
DidReturn == pc = "done" /\ outcome.kind = "return"
DidThrow == pc = "done" /\ outcome.kind = "throw"

\* an entry pushed by stashChanges is on the stash list
AutoStashStored == \E i \in DOMAIN stash : stash[i].auto

\* a rebase or merge is in progress
InProgress == op # "none"

\* the tree was clean when the invocation started
StartedClean == ~hasAnyChanges(hd, orig.idx, orig.wt, NoUnmerged)

\* exits through success, conflict-abort or an unrelated error
SuccessExit    == DidReturn /\ outcome.message \in {MsgSynced, MsgPopFailed, MsgResolved}
AbortExit      == DidReturn /\ outcome.message \in {MsgAborted, MsgResAborted, MsgNonInteractive}
OperatorAbortExit == DidReturn /\ outcome.message \in {MsgAborted, MsgResAborted}
ErrorExit      == (DidReturn /\ outcome.message = MsgError) \/ DidThrow

\* C1: in every execution in which stashChanges returned stashed=true,
\* stashPop is invoked exactly once before syncWithBase returns or throws,
\* on the success, conflict-abort and unrelated-error exit paths.
C1_PopExactlyOnce ==
  (created >= 1 /\ (SuccessExit \/ AbortExit \/ ErrorExit)) => pops = 1

\* C2: whenever syncWithBase returns, either no rebase/merge is in progress
\* and the stash entry it created is off the stash list, or the outcome has
\* hasConflicts=true or reports the restore failure.
C2_AppliedOrReported ==
  DidReturn =>
    \/ ~InProgress /\ ~AutoStashStored
    \/ outcome.hasConflicts
    \/ outcome.message = MsgPopFailed

\* C3: after a stash has been created, no exception escapes syncWithBase
\* unless a stashPop has been attempted first.
C3_NoThrowBeforeRestore ==
  (DidThrow /\ created >= 1) => pops >= 1

\* C4: whenever stashPop returned success=false inside syncWithBase, the
\* returned outcome reports the restore failure, and "changes restored" is
\* neither logged nor returned.
C4_RestoreFailureReported ==
  (DidReturn /\ popFailed) =>
    /\ outcome.message = MsgPopFailed
    /\ LogRestored \notin logged

C6_NoOpOnBaseBranch ==
  curBranch = BaseBranch =>
    /\ cmds = <<>>
    /\ idx = orig.idx /\ wt = orig.wt /\ stash = orig.stash
    /\ op = "none" /\ headAt = "orig"
    /\ Ended => outcome = Returned(TRUE, FALSE, MsgOnBase)

\* C6 witness: a sync called on the base branch with a dirty tree has
\* returned.
C6_Witness ==
  /\ curBranch = BaseBranch
  /\ DidReturn
  /\ hasAnyChanges(hd, idx, wt, um)

\* C7: when the working tree is clean at the start of syncWithBase, no
\* stash push and no stash pop is issued on any path of the invocation.
C7_CleanTreeNoStash ==
  StartedClean =>
    /\ ~Issued("stash push")
    /\ \A c \in PopCommands : ~Issued(c)

\* C8: stashChanges immediately followed by a stashPop(stagedFiles) that
\* reports success leaves the index (the staged paths and their staged
\* content) and every file's content as they were.
C8_RoundTrip ==
  (pc = "rt_done" /\ outcome.kind = "return" /\ outcome.success) =>
    idx = orig.idx /\ wt = orig.wt

\* C9: a sync of a dirty tree that hits conflicts and is aborted by the
\* operator ends with no rebase/merge in progress, HEAD as before the sync,
\* the stash popped, and the index and working tree as before the sync.
C9_AbortRestoresTree ==
  (OperatorAbortExit /\ created >= 1) =>
    /\ ~InProgress
    /\ headAt = "orig"
    /\ stash = orig.stash
    /\ idx = orig.idx /\ wt = orig.wt

\* C10: in non-interactive mode a sync that failed with conflicts returns
\* success=false, hasConflicts=true and the message naming the manual
\* command, having issued no prompt and the abort before any stash pop, and
\* no rebase/merge is in progress at return.
C10_NonInteractiveAbort ==
  (DidReturn /\ ~interactive /\ rounds >= 1) =>
    /\ outcome = Returned(FALSE, TRUE, MsgNonInteractive)
    /\ ~Issued("prompt")
    /\ \E j \in DOMAIN cmds : cmds[j] \in AbortCommands
    /\ \A i, j \in DOMAIN cmds :
         (cmds[i] \in PopCommands /\ cmds[j] \in AbortCommands) => j < i
    /\ ~InProgress

\* fetch, rebase or merge failed and left neither an unmerged entry nor an
\* operation in progress, and the failure was never classified as a conflict
NonConflictFailure ==
  /\ Ended
  /\ Issued("fetch")
  /\ headAt = "orig" /\ op = "none"
  /\ rounds = 0

\* C11: when fetch or rebase/merge fails and the failure is not a conflict,
\* syncWithBase pops the stash if it created one and returns success=false
\* with the underlying error message and without hasConflicts.
C11_OtherErrorRestores ==
  NonConflictFailure =>
    /\ outcome = Returned(FALSE, FALSE, MsgError)
    /\ created >= 1 => pops = 1

\* C12: a failed fetch, rebase or merge is classified as a conflict if and
\* only if the working tree then has at least one unmerged entry (a file
\* reported by the conflicted-files query); otherwise it takes the
\* unrelated-error branch.
C12_ClassifiedByUnmerged ==
  pops = 0 =>
    /\ pc \in {"prompt", "nonint"} => getConflictedFiles(um) # {}
    /\ pc = "other" => getConflictedFiles(um) = {}

ContinueCommands == {"rebase --continue", "merge --continue"}

\* the operator chose to exit and resolve by hand after a rebase/merge that
\* stopped on conflicts
ManualExit == DidReturn /\ outcome.message = MsgManual /\ headAt # "synced"

ResolvedAll ==
  pc = "resolved" /\ ~resolveResult.aborted /\ resolveResult.filesSkipped = 0

\* the step issues the continue command first
ContinueIssued ==
  /\ Len(cmds') > Len(cmds)
  /\ cmds'[Len(cmds) + 1] \in ContinueCommands

\* the step issued the continue command and the command succeeded
ContinueSucceeded == ContinueIssued /\ op' = "none" /\ headAt' = "synced"

Count(c) == Cardinality({i \in DOMAIN cmds : cmds[i] = c})

\* the continue failed with unmerged files left and syncWithBase went on
\* with "More conflicts found in subsequent commits"
MoreConflicts == LogMore \in logged

\* C15: when the continue fails and unmerged files remain, syncWithBase
\* re-enters the conflict branch for the new conflicts instead of failing,
\* without running capture, fetch or the initial rebase/merge again, and the
\* stash entry captured at the start is the one restored at the end.
C15_ReentersConflictBranch ==
  MoreConflicts =>
    /\ Count("stash push") <= 1
    /\ Count("fetch") = 1
    /\ Count(strategy) = 1
    /\ ~DidThrow
    /\ (Ended /\ created >= 1 /\ ~InProgress) => ~AutoStashStored

\* C16: every invocation of syncWithBase terminates when each git command
\* returns and each prompt is answered, and the number of conflict rounds
\* of one invocation never exceeds the number of commits being rebased.
C16_Terminates ==
  /\ <>Ended
  /\ [](rounds <= commits)

\* C16 witness: an invocation that went through a conflict round, a failed
\* continue with more conflicts and the re-entry has ended
C16_Witness ==
  /\ Ended
  /\ rounds >= 1
  /\ MoreConflicts

\* the invocation ended after a resolver pass over the conflicts of the
\* stopped rebase/merge that skipped at least one file and was not aborted
SkippedExit ==
  /\ Ended
  /\ resolveResult.filesSkipped > 0 /\ ~resolveResult.aborted
  /\ headAt # "synced"

MaxLines == 6
\* longest side of a conflict block, in lines, and most blocks of a content
\* written from blocks
MaxSide == 2
MaxBlocks == 2

\* the lines a content is made of: the three markers as git writes them, a
\* line of text, an empty line, and a line of text that begins with seven
\* "=" (the underline of a heading)
StartMarker == "<<<<<<< HEAD"
Separator   == "======="
EndMarker   == ">>>>>>> feature"
TextLine    == "text"
Blank       == ""
Underline   == "========"

Lines == {StartMarker, Separator, EndMarker, TextLine, Blank, Underline}

\* line.startsWith(prefix) for the three prefixes the parser tests
startsWith(line, prefix) ==
  CASE prefix = "<<<<<<<" -> line = StartMarker
    [] prefix = "=======" -> line \in {Separator, Underline}
    [] prefix = ">>>>>>>" -> line = EndMarker

\* lines.join("\n")
RECURSIVE join(_)
join(ls) ==
  IF ls = <<>> THEN ""
  ELSE IF Len(ls) = 1 THEN ls[1]
  ELSE ls[1] \o "\n" \o join(Tail(ls))

\* the inner while of parseConflicts, from 0-based line i: the lines of the
\* two sides and the line at which the loop stopped
RECURSIVE scanBlock(_, _, _, _, _)
scanBlock(lines, i, inCurrent, currentLines, incomingLines) ==
  IF i < Len(lines) /\ ~startsWith(lines[i + 1], ">>>>>>>")
  THEN IF startsWith(lines[i + 1], "=======")
       THEN scanBlock(lines, i + 1, FALSE, currentLines, incomingLines)
       ELSE IF inCurrent
       THEN scanBlock(lines, i + 1, inCurrent, Append(currentLines, lines[i + 1]), incomingLines)
       ELSE scanBlock(lines, i + 1, inCurrent, currentLines, Append(incomingLines, lines[i + 1]))
  ELSE [i |-> i, currentLines |-> currentLines, incomingLines |-> incomingLines]

\* the outer while of parseConflicts, from 0-based line i
RECURSIVE scanLines(_, _, _)
scanLines(lines, i, acc) ==
  IF i >= Len(lines) THEN acc
  ELSE IF startsWith(lines[i + 1], "<<<<<<<")
  THEN LET r == scanBlock(lines, i + 1, TRUE, <<>>, <<>>)
       IN scanLines(lines, r.i + 1,
                    Append(acc, [startLine |-> i, endLine |-> r.i,
                                 current |-> join(r.currentLines),
                                 incoming |-> join(r.incomingLines)]))
  ELSE scanLines(lines, i + 1, acc)

\* the blocks returned from the last one to the first
parseConflictsBottomUp(lines) ==
  LET bs == scanLines(lines, 0, <<>>)
  IN [k \in 1..Len(bs) |-> bs[Len(bs) + 1 - k]]

\* parseConflicts(content), content given as content.split("\n")
parseConflicts(lines) == scanLines(lines, 0, <<>>)

\* every content of at most MaxLines lines; split never returns no line
Contents == UNION {[1..n -> Lines] : n \in 1..MaxLines}

\* contents written from conflict blocks: lines before the first block,
\* then for each block its two sides and the lines that follow it
SideLines == {TextLine, Blank, Underline}
Sides == UNION {[1..n -> SideLines] : n \in 0..MaxSide}
Gaps == {<<>>, <<TextLine>>}
BlockSources == [current : Sides, incoming : Sides, after : Gaps]
Sources ==
  [built : {TRUE}, head : Gaps,
   blocks : UNION {[1..n -> BlockSources] : n \in 0..MaxBlocks}]

RECURSIVE writtenBlocks(_)
writtenBlocks(bs) ==
  IF bs = <<>> THEN <<>>
  ELSE LET b == Head(bs)
       IN <<StartMarker>> \o b.current \o <<Separator>> \o b.incoming
          \o <<EndMarker>> \o b.after \o writtenBlocks(Tail(bs))

\* the lines of the content written from src
Written(src) ==
  LET ls == src.head \o writtenBlocks(src.blocks)
  IN IF ls = <<>> THEN <<Blank>> ELSE ls

\* the parser is called outside any sync: the repository and the frame of
\* syncWithBase are at rest
AtRest ==
  /\ curBranch = FeatureBranch /\ headAt = "orig" /\ op = "none" /\ todo = 0
  /\ um = NoUnmerged
  /\ hd = [p \in Paths |-> Base] /\ idx = hd /\ wt = hd
  /\ stash = <<>> /\ localBase = "uptodate"
  /\ strategy = "rebase" /\ interactive = TRUE /\ commits = 1
  /\ stashResult = NoStash /\ resolveResult = NoResult /\ outcome = NoOutcome
  /\ InitObs

\* any content
ParseInit ==
  /\ AtRest
  /\ NoPush
  /\ NoHandler
  /\ pc = "parse"
  /\ NoPass
  /\ source = NoSource
  /\ content \in Contents
  /\ conflicts = <<>>

\* a content written from conflict blocks
BuiltInit ==
  /\ AtRest
  /\ NoPush
  /\ NoHandler
  /\ pc = "parse"
  /\ NoPass
  /\ source \in Sources
  /\ content = Written(source)
  /\ conflicts = <<>>

\* const conflicts = parseConflicts(content)
Parse ==
  /\ pc = "parse"
  /\ conflicts' = parseConflicts(content)
  /\ pc' = "parsed"
  /\ UNCHANGED <<source, content, disk, rs>>
  /\ UNCHANGED <<repoVars, obsVars, pushVars, cliVars>>
  /\ UNCHANGED <<strategy, interactive, commits, stashResult, resolveResult, outcome>>

ParseNext == Parse

SpecParse == ParseInit /\ [][ParseNext]_vars

SpecBuilt == BuiltInit /\ [][ParseNext]_vars

Parsed == pc = "parsed"

\* C18: for a content made of N disjoint well-formed conflict blocks with
\* arbitrary text in the two sides (empty sides and blank lines included),
\* parseConflicts returns exactly N blocks in source order whose current and
\* incoming are the text of each side; with no start marker it returns the
\* empty sequence.
C18_ParsesEveryBlock ==
  (Parsed /\ source.built) =>
    /\ Len(conflicts) = Len(source.blocks)
    /\ \A k \in DOMAIN conflicts :
         /\ conflicts[k].current = join(source.blocks[k].current)
         /\ conflicts[k].incoming = join(source.blocks[k].incoming)

\* C19: parseConflicts produces a block only for a start marker matched by
\* a later end marker: every block ends on a line of the content that
\* begins with the end marker, and no block extends past the last line.
C19_OnlyMatchedBlocks ==
  Parsed =>
    \A k \in DOMAIN conflicts :
      /\ conflicts[k].endLine <= Len(content) - 1
      /\ startsWith(content[conflicts[k].endLine + 1], ">>>>>>>")

\* C20: for every content, each block returned by parseConflicts has
\* startLine < endLine, and the blocks are pairwise disjoint and ordered by
\* increasing startLine.
C20_BlocksOrderedDisjoint ==
  Parsed =>
    /\ \A k \in DOMAIN conflicts : conflicts[k].startLine < conflicts[k].endLine
    /\ \A k, l \in DOMAIN conflicts :
         k < l => conflicts[k].endLine < conflicts[l].startLine

\* C20 witness: a content with a start marker inside a block and a second
\* block after it has been parsed into two blocks
C20_Witness ==
  /\ Parsed
  /\ Len(conflicts) = 2
  /\ \E j \in DOMAIN content :
       /\ conflicts[1].startLine < j - 1 /\ j - 1 < conflicts[1].endLine
       /\ startsWith(content[j], "<<<<<<<")

(***************************************************************************)
(* resolveConflictBlock, resolveFileConflicts, getFileConflicts and        *)
(* resolveConflictsInteractively (conflict-resolver.ts)                    *)
(***************************************************************************)
\* most blocks of a file given to resolveFileConflicts, and most files of
\* a pass
MaxFileBlocks == 3
MaxFiles == 2

Min(a, b) == IF a <= b THEN a ELSE b

\* text.split("\n") of a side returned by parseConflicts: the one
\* non-empty sequence of lines that joins to the text
split(text) ==
  CHOOSE ls \in UNION {[1..n -> Lines] : n \in 1..MaxSide} : join(ls) = text

\* lines.slice(from, to) with 0-based from and exclusive to
slice(lines, from, to) ==
  SubSeq(lines, Min(from, Len(lines)) + 1, Min(to, Len(lines)))

\* the lines of `resolution`: it is put in the array as one element and the
\* array is joined, so that the next split sees its lines
resolutionLines(conflict, choice) ==
  CASE choice = "current"  -> split(conflict.current)
    [] choice = "incoming" -> split(conflict.incoming)
    [] choice = "both"     -> split(conflict.current) \o split(conflict.incoming)

\* resolveConflictBlock(content, conflict, choice), on content.split("\n")
resolveConflictBlock(lines, conflict, choice) ==
  LET before == slice(lines, 0, conflict.startLine)
      after  == slice(lines, conflict.endLine + 1, Len(lines))
  IN before \o resolutionLines(conflict, choice) \o after

\* [...conflicts].sort((a, b) => b.startLine - a.startLine): a stable
\* insertion by descending startLine
RECURSIVE insertDescending(_, _)
insertDescending(sorted, c) ==
  IF sorted = <<>> THEN <<c>>
  ELSE IF Head(sorted).startLine >= c.startLine
  THEN <<Head(sorted)>> \o insertDescending(Tail(sorted), c)
  ELSE <<c>> \o sorted

RECURSIVE sortedConflicts(_)
sortedConflicts(cs) ==
  IF cs = <<>> THEN <<>>
  ELSE insertDescending(sortedConflicts(SubSeq(cs, 1, Len(cs) - 1)), cs[Len(cs)])

\* a conflicted file on disk: whether readFile succeeds, its lines, and
\* what the pass did to it
File(readable, lines) ==
  [readable |-> readable, lines |-> lines, original |-> lines,
   written |-> FALSE, staged |-> FALSE]

\* getFileConflicts, files k..Len(d) of the listing: a file that cannot be
\* read is passed over by the empty catch, a file without block is left out
RECURSIVE fileConflictsFrom(_, _)
fileConflictsFrom(d, k) ==
  IF k > Len(d) THEN <<>>
  ELSE LET found == IF d[k].readable THEN parseConflicts(d[k].lines) ELSE <<>>
       IN (IF found # <<>>
           THEN <<[file |-> k, conflicts |-> found, originalContent |-> d[k].lines]>>
           ELSE <<>>)
          \o fileConflictsFrom(d, k + 1)

getFileConflicts(d) == fileConflictsFrom(d, 1)

\* resolveFileConflicts is entered for results[k]: lines 217-222
EnterFile(frame, k) ==
  /\ content' = frame.results[k].originalContent
  /\ conflicts' = sortedConflicts(frame.results[k].conflicts)
  /\ rs' = [frame EXCEPT !.fi = k, !.i = Len(frame.results[k].conflicts) - 1,
                         !.skipped = 0, !.resolvedCount = 0]

\* the return whose success looks at the skipped files only
ReturnPassIgnoresAbort(frame, aborted) ==
  /\ rs' = [frame EXCEPT
              !.kind = "return",
              !.ret = [success |-> frame.filesSkipped = 0,
                       filesResolved |-> frame.filesResolved,
                       filesSkipped |-> frame.filesSkipped,
                       aborted |-> aborted]]
  /\ pc' = "passed"

\* the pass returns: lines 277-279, 295-299 and 320-326
ReturnPass(frame, aborted) ==
  /\ rs' = [frame EXCEPT
              !.kind = "return",
              !.ret = [success |-> ~aborted /\ frame.filesSkipped = 0,
                       filesResolved |-> frame.filesResolved,
                       filesSkipped |-> frame.filesSkipped,
                       aborted |-> aborted]]
  /\ pc' = "passed"

\* the pass rejects
ThrowPass(frame) ==
  /\ rs' = [frame EXCEPT !.kind = "throw"]
  /\ pc' = "passed"

\* const fileConflicts = await getFileConflicts(): lines 275-280
StartPass ==
  /\ pc = "pass"
  /\ \E listOk \in BOOLEAN :
       IF ~listOk
       THEN ThrowPass(rs) /\ UNCHANGED <<content, conflicts>>
       ELSE LET frame == [rs EXCEPT !.results = getFileConflicts(disk)]
            IN IF frame.results = <<>>
               THEN ReturnPass(frame, FALSE) /\ UNCHANGED <<content, conflicts>>
               ELSE EnterFile(frame, 1) /\ pc' = "block"
  /\ UNCHANGED <<source, disk>>
  /\ UNCHANGED <<repoVars, obsVars, pushVars, cliVars>>
  /\ UNCHANGED <<strategy, interactive, commits, stashResult, resolveResult, outcome>>

\* the block the loop of resolveFileConflicts is at: sortedConflicts[i]
Current == conflicts[rs.i + 1]

\* the operator answered the prompt for the current block
Asked(choice) ==
  [rs EXCEPT !.prompts = @ + 1,
             !.answers = Append(@, [file |-> rs.results[rs.fi].file,
                                    startLine |-> Current.startLine,
                                    choice |-> choice])]

\* lines 248-261 and the loop of lines 292-306: the file is written when a
\* block was resolved, staged when the written content parses to no block,
\* counted, and the pass goes to the next file or returns; addOk is the
\* exit status of `git add`
FinishFile(frame, content2) ==
  LET k == frame.results[frame.fi].file
      wrote == frame.resolvedCount > 0
      toStage == wrote /\ parseConflicts(content2) = <<>>
      counted == [frame EXCEPT
                    !.filesResolved = IF frame.skipped = 0 THEN @ + 1 ELSE @,
                    !.filesSkipped = IF frame.skipped = 0 THEN @ ELSE @ + 1]
  IN \E addOk \in (IF toStage THEN BOOLEAN ELSE {TRUE}) :
       /\ disk' = [disk EXCEPT ![k].lines = IF wrote THEN content2 ELSE @,
                               ![k].written = wrote,
                               ![k].staged = toStage /\ addOk]
       /\ IF ~addOk
          THEN ThrowPass(frame) /\ content' = content2 /\ UNCHANGED conflicts
          ELSE IF frame.fi < Len(frame.results)
          THEN EnterFile(counted, frame.fi + 1) /\ UNCHANGED pc
          ELSE ReturnPass(counted, FALSE) /\ content' = content2 /\ UNCHANGED conflicts

\* the end of one iteration of the loop `for (i = length - 1; i >= 0; i--)`
AfterBlock(frame, content2) ==
  IF frame.i > 0
  THEN /\ content' = content2
       /\ rs' = [frame EXCEPT !.i = @ - 1]
       /\ UNCHANGED <<conflicts, disk, pc>>
  ELSE FinishFile(frame, content2)

\* the span of the current block no longer holds the lines it held in the
\* content that was parsed
SpanMoved ==
  slice(content, Current.startLine, Current.endLine + 1)
    # slice(rs.results[rs.fi].originalContent, Current.startLine, Current.endLine + 1)

\* the operator answers current, incoming or both: lines 242-245
AnswerResolve ==
  /\ pc = "block"
  /\ \E choice \in {"current", "incoming", "both"} :
       AfterBlock([Asked(choice) EXCEPT !.resolvedCount = @ + 1,
                                        !.stale = @ \/ SpanMoved],
                  resolveConflictBlock(content, Current, choice))
  /\ UNCHANGED source
  /\ UNCHANGED <<repoVars, obsVars, pushVars, cliVars>>
  /\ UNCHANGED <<strategy, interactive, commits, stashResult, resolveResult, outcome>>

\* the operator answers skip: lines 236-240
AnswerSkip ==
  /\ pc = "block"
  /\ AfterBlock([Asked("skip") EXCEPT !.skipped = @ + 1], content)
  /\ UNCHANGED source
  /\ UNCHANGED <<repoVars, obsVars, pushVars, cliVars>>
  /\ UNCHANGED <<strategy, interactive, commits, stashResult, resolveResult, outcome>>

\* the abort writing the edits made so far to the current file
AnswerAbortWrites ==
  /\ pc = "block"
  /\ ReturnPass(Asked("abort"), TRUE)
  /\ disk' = [disk EXCEPT ![rs.results[rs.fi].file].lines = content,
                          ![rs.results[rs.fi].file].written = rs.resolvedCount > 0]
  /\ UNCHANGED <<source, content, conflicts>>
  /\ UNCHANGED <<repoVars, obsVars, pushVars, cliVars>>
  /\ UNCHANGED <<strategy, interactive, commits, stashResult, resolveResult, outcome>>

\* the operator answers abort: lines 232-234 and 295-299
AnswerAbort ==
  /\ pc = "block"
  /\ ReturnPass(Asked("abort"), TRUE)
  /\ UNCHANGED <<source, content, conflicts, disk>>
  /\ UNCHANGED <<repoVars, obsVars, pushVars, cliVars>>
  /\ UNCHANGED <<strategy, interactive, commits, stashResult, resolveResult, outcome>>

PassNext == StartPass \/ AnswerResolve \/ AnswerSkip \/ AnswerAbort

\* one readable file written from up to MaxFileBlocks blocks whose sides
\* are empty or one line of text
FileSides == {<<>>, <<TextLine>>}
FileSources ==
  [built : {TRUE}, head : {<<>>},
   blocks : UNION {[1..n -> [current : FileSides, incoming : FileSides, after : Gaps]]
                   : n \in 1..MaxFileBlocks}]

FileInit ==
  /\ AtRest
  /\ NoPush
  /\ NoHandler
  /\ pc = "pass"
  /\ source \in FileSources
  /\ disk = <<File(TRUE, Written(source))>>
  /\ rs = IdleFrame
  /\ content = <<Blank>>
  /\ conflicts = <<>>

SpecFile == FileInit /\ [][PassNext]_vars

\* the files of a pass: one block, two blocks, no block, and each of them
\* unreadable
OneBlock == <<StartMarker, TextLine, Separator, EndMarker>>
TwoBlocks == <<StartMarker, Separator, TextLine, EndMarker, TextLine,
               StartMarker, TextLine, Separator, TextLine, EndMarker>>
PassFiles ==
  {File(readable, lines) : readable \in BOOLEAN,
                           lines \in {OneBlock, TwoBlocks, <<TextLine>>}}

PassInit ==
  /\ AtRest
  /\ NoPush
  /\ NoHandler
  /\ pc = "pass"
  /\ source = NoSource
  /\ disk \in UNION {[1..n -> PassFiles] : n \in 0..MaxFiles}
  /\ rs = IdleFrame
  /\ content = <<Blank>>
  /\ conflicts = <<>>

SpecPass == PassInit /\ [][PassNext]_vars

PassEnded == pc = "passed"
PassReturned == pc = "passed" /\ rs.kind = "return"

Resolutions == {"current", "incoming", "both"}

\* C21: resolveFileConflicts applies the resolutions of a file last-to-first
\* by position (descending startLine), so that when a resolution is applied
\* the block's startLine..endLine still hold that block's own lines in the
\* working content.
C21_AppliesLastToFirst ==
  /\ ~rs.stale
  /\ \A j, k \in DOMAIN rs.answers :
       (/\ j < k
        /\ rs.answers[j].file = rs.answers[k].file
        /\ rs.answers[j].choice \in Resolutions
        /\ rs.answers[k].choice \in Resolutions)
       => rs.answers[j].startLine > rs.answers[k].startLine

\* the first answer of the pass was `current`, given for block k of the
\* file as it was read
FirstKeptCurrent(k) ==
  /\ pc \in {"block", "passed"}
  /\ Len(rs.answers) = 1
  /\ rs.answers[1].choice = "current"
  /\ k \in DOMAIN rs.results[1].conflicts
  /\ rs.results[1].conflicts[k].startLine = rs.answers[1].startLine

\* C22: applying keepCurrent to a parsed block and parsing the result again
\* gives strictly fewer blocks, and the lines that replace the block's span
\* are exactly the lines of the block's current side, no line at all when
\* that side is empty.
C22_KeepCurrentReplacesSpan ==
  \A k \in DOMAIN source.blocks :
    FirstKeptCurrent(k) =>
      LET original == rs.results[1].originalContent
          c == rs.results[1].conflicts[k]
          kept == slice(original, 0, c.startLine)
                    \o source.blocks[k].current
                    \o slice(original, c.endLine + 1, Len(original))
      IN /\ content = (IF kept = <<>> THEN <<Blank>> ELSE kept)
         /\ Len(parseConflicts(content)) < Len(parseConflicts(original))

\* the lines of `sub` are found in `lines`, in a row
Contains(lines, sub) ==
  \E off \in 0..(Len(lines) - Len(sub)) :
    SubSeq(lines, off + 1, off + Len(sub)) = sub

\* C23: when the operator chooses skip for a block, all the lines of that
\* block (start marker, both sides, separator, end marker) are unchanged in
\* the file after the pass, whatever is chosen for the other blocks.
C23_SkipKeepsBlock ==
  PassReturned =>
    \A j \in DOMAIN rs.answers :
      rs.answers[j].choice = "skip" =>
        \A k \in DOMAIN rs.results[1].conflicts :
          LET c == rs.results[1].conflicts[k]
          IN c.startLine = rs.answers[j].startLine =>
               Contains(disk[1].lines,
                        slice(rs.results[1].originalContent, c.startLine, c.endLine + 1))

\* a block of the file was skipped
SomeSkipped == \E j \in DOMAIN rs.answers : rs.answers[j].choice = "skip"

\* C24: after all blocks of a file have been processed, the file is
\* written back and staged if and only if none of its blocks was skipped.
C24_StagedIffNoSkip ==
  (PassReturned /\ ~rs.ret.aborted) =>
    ((disk[1].written /\ disk[1].staged) <=> ~SomeSkipped)

\* C25: when the operator chooses abort at any block, the pass issues no
\* further prompt, writes and stages nothing for the current file or any
\* later file, and returns aborted=true with success=false.
C25_AbortStopsPass ==
  \A j \in DOMAIN rs.answers :
    rs.answers[j].choice = "abort" =>
      /\ j = Len(rs.answers) /\ rs.prompts = j
      /\ PassReturned
      /\ rs.ret.aborted /\ ~rs.ret.success
      /\ \A k \in DOMAIN disk :
           k >= rs.answers[j].file =>
             /\ ~disk[k].written /\ ~disk[k].staged
             /\ disk[k].lines = disk[k].original

\* C25 witness: the abort came at the second block of a file whose first
\* block had been resolved in memory, with another file after it
C25_Witness ==
  /\ PassReturned /\ rs.ret.aborted
  /\ Len(rs.answers) >= 2
  /\ rs.answers[Len(rs.answers) - 1].choice \in Resolutions
  /\ rs.answers[Len(rs.answers) - 1].file = rs.answers[Len(rs.answers)].file
  /\ rs.fi < Len(rs.results)

\* C26: resolveConflictsInteractively returns success=true if and only if
\* filesSkipped == 0 and aborted == false.
C26_SuccessIffNoSkipNoAbort ==
  PassReturned =>
    (rs.ret.success <=> (rs.ret.filesSkipped = 0 /\ ~rs.ret.aborted))

\* C26 witness: a pass aborted before any file was skipped returns
\* success=false with filesSkipped = 0
C26_Witness ==
  /\ PassReturned
  /\ rs.ret.aborted /\ rs.ret.filesSkipped = 0 /\ ~rs.ret.success
  /\ rs.prompts >= 2

\* the files of the listing that cannot be read
Unreadable == {k \in DOMAIN disk : ~disk[k].readable}

\* the pass got its list of conflicted files
Listed == pc = "block" \/ PassReturned

\* C27: a file reported as conflicted that cannot be read when the pass
\* starts is skipped with a warning and is not fatal: the pass goes on with
\* the remaining files.
C27_UnreadableWarned ==
  (Listed /\ Unreadable # {}) =>
    /\ rs.warned >= Cardinality(Unreadable)
    /\ \A k \in DOMAIN disk :
         (disk[k].readable /\ parseConflicts(disk[k].original) # <<>>) =>
           \E r \in DOMAIN rs.results : rs.results[r].file = k

\* this step issued `git fetch origin base:base`
FastForwardIssued ==
  \E i \in (Len(cmds) + 1)..Len(cmds') : cmds'[i] = "fetch base:base"

\* this step went through updateLocalBaseBranch: the fetch of line 507
\* succeeded and the rebase or merge was issued after it
PassedLocalUpdate == pc = "try" /\ Len(cmds') >= Len(cmds) + 2

C28_Step ==
  /\ FastForwardIssued => (localBase = "behind" /\ getCurrentBranch # BaseBranch)
  /\ localBase' # localBase => (FastForwardIssued /\ localBase = "behind")
  /\ localBase = "diverged" =>
       /\ ~FastForwardIssued
       /\ PassedLocalUpdate => LogWarnBase \in logged'
  /\ (PassedLocalUpdate /\ localBase # "diverged") =>
       (LogWarnBase \in logged' <=> LogWarnBase \in logged)

\* C28: updateLocalBaseBranch fast-forwards the local base branch only when it
\* is strictly behind its remote and has no local-only commits; when it has
\* diverged nothing is changed and only a warning is logged; it is never
\* attempted while the current branch is the base branch.
C28_UpdatesOnlyBehind == [][C28_Step]_vars

\* C28 witness: the fast-forward was issued and brought the local base
\* branch up to date
C28_Witness == Issued("fetch base:base") /\ localBase = "uptodate"

(***************************************************************************)
(* performPush and handleNonFastForward (smart-git-push/push.ts)           *)
(***************************************************************************)
\* config.git.syncStrategy
SyncStrategies == {"rebase", "merge", "none"}

\* messages a rejected command ends with
NonFastForwardErrors == {"rejected: non-fast-forward", "rejected: fetch first"}
StaleInfo   == "rejected: stale info"
Denied      == "permission denied"
NoRemoteRef == "couldn't find remote ref"
FetchFailed == "could not read from remote repository"
MsgBehind    == "Push failed: branch is behind remote"
MsgCancelled == "Push cancelled by user"

LogPushed        == "Pushed successfully!"
LogPushAborted   == "warn: Push aborted. Run manually: git pull --rebase && git push"
LogSyncFailed    == "error: Rebase | Merge failed with conflicts"
LogNotForced     == "warn: Push aborted. You can manually pull and rebase, or run the script again."

\* isNonFastForward: lines 8-11
isNonFastForward(error) == error \in NonFastForwardErrors

\* git.push: the arguments it builds
pushCommand(forceWithLease, setUpstream, force) ==
  "push"
  \o (IF setUpstream THEN " -u origin branch" ELSE "")
  \o (IF force THEN " --force" ELSE IF forceWithLease THEN " --force-with-lease" ELSE "")
  \o (IF ~setUpstream /\ ~forceWithLease /\ ~force THEN " origin branch" ELSE "")

\* how the push can end: "" is success, a lease can only be stale when one
\* is asked for, a forced push is never rejected for the state of the remote
pushOutcomes(forceWithLease, force) ==
  {"", Denied}
  \cup (IF force THEN {}
        ELSE IF forceWithLease THEN {StaleInfo}
        ELSE NonFastForwardErrors)

\* line 22: the strategy of the recovery
syncStrategy == IF pf.syncStrategy # "none" THEN pf.syncStrategy ELSE "rebase"

\* performPush returns
ReturnPush ==
  /\ pf' = [pf EXCEPT !.result = "returned"]
  /\ logged' = logged \cup {LogPushed}
  /\ pc' = "pushed"

\* performPush rejects with error
ThrowPush(frame, error) ==
  /\ pf' = [frame EXCEPT !.result = "threw", !.error = error]
  /\ pc' = "pushed"

\* lines 109-124 and 187-190: the push and the classification of its failure
FirstPush ==
  /\ pc = "push"
  /\ cmds' = Append(cmds, pushCommand(pf.useForce, pf.setUpstream, FALSE))
  /\ \E e \in pushOutcomes(pf.useForce, FALSE) :
       IF e = "" THEN ReturnPush
       ELSE IF ~pf.useForce /\ isNonFastForward(e)
       THEN pc' = "nff" /\ UNCHANGED <<pf, logged>>
       ELSE IF pf.useForce /\ e = StaleInfo
       THEN pc' = "stale" /\ UNCHANGED <<pf, logged>>
       ELSE ThrowPush(pf, e) /\ UNCHANGED logged
  /\ UNCHANGED <<repoVars, parseVars, cliVars>>
  /\ UNCHANGED <<strategy, interactive, commits, stashResult, resolveResult, outcome>>
  /\ UNCHANGED <<pops, popFailed, popThrew, created, rounds, applied, lastPop, orig>>

\* lines 24-43: git.fetch() outside any try, then the read-only git log
NffFetch ==
  /\ pc = "nff"
  /\ cmds' = Append(cmds, "fetch")
  /\ \E fetchOk \in BOOLEAN :
       IF fetchOk THEN pc' = "nff_ask" /\ UNCHANGED pf
       ELSE ThrowPush(pf, FetchFailed)
  /\ UNCHANGED <<repoVars, parseVars, cliVars, logged>>
  /\ UNCHANGED <<strategy, interactive, commits, stashResult, resolveResult, outcome>>
  /\ UNCHANGED <<pops, popFailed, popThrew, created, rounds, applied, lastPop, orig>>

\* lines 45-55 and 116-119: ask or auto-proceed
NffAsk ==
  /\ pc = "nff_ask"
  /\ IF pf.autoYes
     THEN pc' = "nff_sync" /\ UNCHANGED <<pf, cmds, logged>>
     ELSE \E answer \in BOOLEAN :
            LET frame == [pf EXCEPT !.asked = Append(@, answer)] IN
            /\ cmds' = Append(cmds, "confirm sync")
            /\ IF answer
               THEN pf' = frame /\ pc' = "nff_sync" /\ UNCHANGED logged
               ELSE /\ ThrowPush(frame, MsgBehind)
                    /\ logged' = logged \cup {LogPushAborted}
  /\ UNCHANGED <<repoVars, parseVars, cliVars>>
  /\ UNCHANGED <<strategy, interactive, commits, stashResult, resolveResult, outcome>>
  /\ UNCHANGED <<pops, popFailed, popThrew, created, rounds, applied, lastPop, orig>>

\* the recovery that retries whatever the rebase or merge did
NffSyncRetriesAnyway ==
  /\ pc = "nff_sync"
  /\ cmds' = Append(cmds, syncStrategy)
  /\ \E r \in applyOutcomes(Repo, syncStrategy, commits) :
       /\ SetRepo(r.g)
       /\ pc' = "nff_retry" /\ UNCHANGED <<pf, logged>>
  /\ UNCHANGED <<curBranch, hd, localBase, parseVars, cliVars>>
  /\ UNCHANGED <<strategy, interactive, commits, stashResult, resolveResult, outcome>>
  /\ UNCHANGED <<pops, popFailed, popThrew, created, rounds, applied, lastPop, orig>>

\* lines 57-82 and 116-119: git rebase | merge origin/<currentBranch>
NffSync ==
  /\ pc = "nff_sync"
  /\ cmds' = Append(cmds, syncStrategy)
  /\ \E r \in applyOutcomes(Repo, syncStrategy, commits) :
       /\ SetRepo(r.g)
       /\ IF r.threw
          THEN /\ ThrowPush(pf, MsgBehind)
               /\ logged' = logged \cup {LogSyncFailed}
          ELSE pc' = "nff_retry" /\ UNCHANGED <<pf, logged>>
  /\ UNCHANGED <<curBranch, hd, localBase, parseVars, cliVars>>
  /\ UNCHANGED <<strategy, interactive, commits, stashResult, resolveResult, outcome>>
  /\ UNCHANGED <<pops, popFailed, popThrew, created, rounds, applied, lastPop, orig>>

\* the retry that starts the recovery again when it is rejected
NffRetryAgain ==
  /\ pc = "nff_retry"
  /\ Len(cmds) < 12
  /\ cmds' = Append(cmds, pushCommand(FALSE, pf.setUpstream, FALSE))
  /\ \E e \in pushOutcomes(FALSE, FALSE) :
       IF e = "" THEN ReturnPush
       ELSE IF isNonFastForward(e) THEN pc' = "nff" /\ UNCHANGED <<pf, logged>>
       ELSE ThrowPush(pf, e) /\ UNCHANGED logged
  /\ UNCHANGED <<repoVars, parseVars, cliVars>>
  /\ UNCHANGED <<strategy, interactive, commits, stashResult, resolveResult, outcome>>
  /\ UNCHANGED <<pops, popFailed, popThrew, created, rounds, applied, lastPop, orig>>

\* lines 84-90: the retry push, outside any try
NffRetry ==
  /\ pc = "nff_retry"
  /\ cmds' = Append(cmds, pushCommand(FALSE, pf.setUpstream, FALSE))
  /\ \E e \in pushOutcomes(FALSE, FALSE) :
       IF e = "" THEN ReturnPush
       ELSE ThrowPush(pf, e) /\ UNCHANGED logged
  /\ UNCHANGED <<repoVars, parseVars, cliVars>>
  /\ UNCHANGED <<strategy, interactive, commits, stashResult, resolveResult, outcome>>
  /\ UNCHANGED <<pops, popFailed, popThrew, created, rounds, applied, lastPop, orig>>

\* lines 125-158: git fetch origin <currentBranch>, then the read-only git log
StaleFetch ==
  /\ pc = "stale"
  /\ cmds' = Append(cmds, "fetch origin branch")
  /\ \E e \in {"", NoRemoteRef, FetchFailed} :
       IF e = "" THEN pc' = "stale_ask" /\ UNCHANGED pf
       ELSE IF e = NoRemoteRef
       THEN pc' = "stale_new" /\ pf' = [pf EXCEPT !.remoteBranchExists = FALSE]
       ELSE ThrowPush(pf, e)
  /\ UNCHANGED <<repoVars, parseVars, cliVars, logged>>
  /\ UNCHANGED <<strategy, interactive, commits, stashResult, resolveResult, outcome>>
  /\ UNCHANGED <<pops, popFailed, popThrew, created, rounds, applied, lastPop, orig>>

\* the fallback push keeping the arguments of the rejected push
StalePushNewKeepsLease ==
  /\ pc = "stale_new"
  /\ cmds' = Append(cmds, pushCommand(pf.useForce, pf.setUpstream, FALSE))
  /\ \E e \in pushOutcomes(pf.useForce, FALSE) :
       IF e = "" THEN ReturnPush
       ELSE ThrowPush(pf, e) /\ UNCHANGED logged
  /\ UNCHANGED <<repoVars, parseVars, cliVars>>
  /\ UNCHANGED <<strategy, interactive, commits, stashResult, resolveResult, outcome>>
  /\ UNCHANGED <<pops, popFailed, popThrew, created, rounds, applied, lastPop, orig>>

\* lines 159-166: the remote branch is gone, push it as a new branch
StalePushNew ==
  /\ pc = "stale_new"
  /\ cmds' = Append(cmds, pushCommand(FALSE, TRUE, FALSE))
  /\ \E e \in pushOutcomes(FALSE, FALSE) :
       IF e = "" THEN ReturnPush
       ELSE ThrowPush(pf, e) /\ UNCHANGED logged
  /\ UNCHANGED <<repoVars, parseVars, cliVars>>
  /\ UNCHANGED <<strategy, interactive, commits, stashResult, resolveResult, outcome>>
  /\ UNCHANGED <<pops, popFailed, popThrew, created, rounds, applied, lastPop, orig>>

\* the force push issued whatever the operator answers
StaleAskForcesAnyway ==
  /\ pc = "stale_ask"
  /\ IF pf.autoYes
     THEN pc' = "stale_force" /\ UNCHANGED <<pf, cmds, logged>>
     ELSE \E answer \in BOOLEAN :
            /\ cmds' = Append(cmds, "confirm force")
            /\ pf' = [pf EXCEPT !.asked = Append(@, answer)]
            /\ pc' = "stale_force" /\ UNCHANGED logged
  /\ UNCHANGED <<repoVars, parseVars, cliVars>>
  /\ UNCHANGED <<strategy, interactive, commits, stashResult, resolveResult, outcome>>
  /\ UNCHANGED <<pops, popFailed, popThrew, created, rounds, applied, lastPop, orig>>

\* lines 168-176 and 183-186: force push anyway?
StaleAsk ==
  /\ pc = "stale_ask"
  /\ IF pf.autoYes
     THEN pc' = "stale_force" /\ UNCHANGED <<pf, cmds, logged>>
     ELSE \E answer \in BOOLEAN :
            LET frame == [pf EXCEPT !.asked = Append(@, answer)] IN
            /\ cmds' = Append(cmds, "confirm force")
            /\ IF answer
               THEN pf' = frame /\ pc' = "stale_force" /\ UNCHANGED logged
               ELSE /\ ThrowPush(frame, MsgCancelled)
                    /\ logged' = logged \cup {LogNotForced}
  /\ UNCHANGED <<repoVars, parseVars, cliVars>>
  /\ UNCHANGED <<strategy, interactive, commits, stashResult, resolveResult, outcome>>
  /\ UNCHANGED <<pops, popFailed, popThrew, created, rounds, applied, lastPop, orig>>

\* lines 178-182: git push --force
StaleForce ==
  /\ pc = "stale_force"
  /\ cmds' = Append(cmds, pushCommand(TRUE, pf.setUpstream, TRUE))
  /\ \E e \in pushOutcomes(TRUE, TRUE) :
       IF e = "" THEN ReturnPush
       ELSE ThrowPush(pf, e) /\ UNCHANGED logged
  /\ UNCHANGED <<repoVars, parseVars, cliVars>>
  /\ UNCHANGED <<strategy, interactive, commits, stashResult, resolveResult, outcome>>
  /\ UNCHANGED <<pops, popFailed, popThrew, created, rounds, applied, lastPop, orig>>

PushNext ==
  \/ FirstPush
  \/ NffFetch \/ NffAsk \/ NffSync \/ NffRetry
  \/ StaleFetch \/ StalePushNew \/ StaleAsk \/ StaleForce

\* performPush(currentBranch, useForce, setUpstream, autoYes) is called on a
\* clean tree of the feature branch
PushInit ==
  /\ AtRest
  /\ NoFile
  /\ pc = "push"
  /\ NoHandler
  /\ pf \in {[IdlePush EXCEPT !.useForce = f, !.setUpstream = u, !.autoYes = y,
                              !.syncStrategy = st]
               : f \in BOOLEAN, u \in BOOLEAN, y \in BOOLEAN, st \in SyncStrategies}

SpecPush == PushInit /\ [][PushNext]_vars

\* the push commands git.push can build, the rebase and merge commands
PushCommands == {pushCommand(f, u, x) : f \in BOOLEAN, u \in BOOLEAN, x \in BOOLEAN}
SyncCommands == {"rebase", "merge"}
Pushes == {i \in DOMAIN cmds : cmds[i] \in PushCommands}
Syncs  == {i \in DOMAIN cmds : cmds[i] \in SyncCommands}
PushEnded == pc = "pushed"

\* the recovery got as far as its retry push
Retried == Cardinality(Syncs) = 1 /\ Cardinality(Pushes) = 2

\* C29: in one performPush invocation the non-fast-forward recovery runs at
\* most once and is followed by at most one retry push; a retry push that is
\* rejected makes performPush throw that error, and nothing is issued after.
C29_SingleRetry ==
  /\ Count("fetch") <= 1
  /\ Cardinality(Syncs) <= 1
  /\ Cardinality(Pushes) <= 2
  /\ \A i \in Syncs : Cardinality({j \in Pushes : j > i}) <= 1
  /\ (PushEnded /\ Retried) =>
       /\ cmds[Len(cmds)] \in PushCommands
       /\ pf.result = "threw" => pf.error \in pushOutcomes(FALSE, FALSE) \ {""}

\* C29 witness: the retry push was rejected as non-fast-forward again and
\* performPush threw that rejection
C29_Witness ==
  /\ PushEnded /\ Retried
  /\ pf.result = "threw" /\ isNonFastForward(pf.error)

\* the command at position i was issued after a fetch and, unless autoYes is
\* set, after the operator confirmed
AfterFetchAndConsent(i) ==
  /\ \E j \in 1..(i - 1) : cmds[j] = "fetch"
  /\ IF pf.autoYes
     THEN ~Issued("confirm sync")
     ELSE /\ \E j, k \in 1..(i - 1) : j < k /\ cmds[j] = "fetch" /\ cmds[k] = "confirm sync"
          /\ pf.asked = <<TRUE>>

\* the retry push comes right after a sync that succeeded; a declined or
\* failed sync ends performPush with a throw and the first push only
RetryOnlyAfterSync ==
  /\ \A i \in Syncs : AfterFetchAndConsent(i)
  /\ \A i \in Pushes : i > 1 => (i - 1 \in Syncs /\ op = "none" /\ headAt = "synced")
  /\ (PushEnded /\ (pf.asked = <<FALSE>> \/ (Syncs # {} /\ headAt # "synced"))) =>
       (pf.result = "threw" /\ Cardinality(Pushes) = 1)

\* the run went through the non-fast-forward recovery
Recovering == Issued("fetch")

\* C30 as stated: the sync is run with the configured strategy
C30_AsStated ==
  Recovering =>
    /\ RetryOnlyAfterSync
    /\ \A i \in Syncs : cmds[i] = pf.syncStrategy

\* C30: on a non-fast-forward rejection performPush fetches, then runs the
\* sync with the configured strategy, a rebase when the configured strategy
\* is none (without prompting when autoYes is set, otherwise only after the
\* operator confirmed), and issues the retry push only after that sync
\* succeeded; if the operator declines or the sync fails, no retry push is
\* issued and performPush throws.
C30_SyncThenRetry ==
  Recovering =>
    /\ RetryOnlyAfterSync
    /\ \A i \in Syncs :
         cmds[i] = (IF pf.syncStrategy = "none" THEN "rebase" ELSE pf.syncStrategy)

\* C30 witness: the operator confirmed, the merge succeeded and the retry
\* push went through
C30_Witness ==
  /\ PushEnded /\ Retried /\ pf.result = "returned"
  /\ pf.asked = <<TRUE>> /\ pf.syncStrategy = "merge"

\* the run went through the stale-lease branch of the catch
StaleLease == Issued("fetch origin branch")

\* the commands issued after the re-fetch
AfterRefetch == {i \in DOMAIN cmds : \E j \in 1..(i - 1) : cmds[j] = "fetch origin branch"}

\* C31: on a stale-lease rejection where the re-fetch finds the remote branch
\* gone, performPush issues exactly one further push, with upstream-setting
\* and without --force or --force-with-lease, and asks the operator nothing.
C31_DeletedRemotePlainPush ==
  (StaleLease /\ ~pf.remoteBranchExists) =>
    /\ pf.asked = <<>> /\ ~Issued("confirm force") /\ ~Issued("confirm sync")
    /\ \A i \in AfterRefetch : cmds[i] = "push -u origin branch"
    /\ Cardinality(AfterRefetch) = (IF PushEnded THEN 1 ELSE 0)

\* C31 witness: the fallback push of a run that did not ask for an upstream
\* went through
C31_Witness ==
  /\ PushEnded /\ StaleLease /\ ~pf.remoteBranchExists
  /\ ~pf.setUpstream /\ pf.result = "returned"

\* the pushes with an unconditional --force
ForcePushes == {"push --force", "push -u origin branch --force"}

\* C32: on a stale-lease rejection where the remote branch still exists the
\* --force push is issued only after the operator confirmed or under
\* autoYes; a decline pushes nothing and throws 'Push cancelled by user';
\* no stale-lease path issues a rebase or merge.
C32_ForceOnlyOnConsent ==
  /\ StaleLease => Syncs = {}
  /\ \A i \in Pushes :
       (i > 1 /\ StaleLease /\ pf.remoteBranchExists) =>
         /\ cmds[i] \in ForcePushes
         /\ IF pf.autoYes THEN pf.asked = <<>>
            ELSE pf.asked = <<TRUE>> /\ cmds[i - 1] = "confirm force"
  /\ \A i \in Pushes : cmds[i] \in ForcePushes => (StaleLease /\ pf.remoteBranchExists)
  /\ (StaleLease /\ pf.asked = <<FALSE>>) =>
       /\ PushEnded /\ pf.result = "threw" /\ pf.error = MsgCancelled
       /\ Cardinality(Pushes) = 1

\* C32 witness: the operator confirmed and the --force push went through
C32_Witness ==
  /\ PushEnded /\ StaleLease /\ pf.remoteBranchExists
  /\ pf.asked = <<TRUE>> /\ pf.result = "returned"
  /\ cmds[Len(cmds)] \in ForcePushes

(***************************************************************************)
(* The handlers of `sg push` and `sg commit` (cli/commands)                *)
(***************************************************************************)
MsgGenerated == ".git/COMMIT_MSG_GENERATED"
MsgTemp      == ".git/COMMIT_MSG_TEMP"

\* the handler ends: process.exit(code), "return", or "reject" when an
\* await outside any try threw
ExitHandler(frame, how) ==
  /\ hf' = [frame EXCEPT !.exit = how]
  /\ pc' = "exited"

\* git add -A | git add -u: the index a staging mode leaves
stagedIndex(mode) ==
  [p \in Paths |-> IF mode = "all" \/ idx[p] # Absent THEN wt[p] ELSE idx[p]]

\* git.commit: the message file, then git commit -F
Committed == hf.written \cup {MsgGenerated, MsgTemp}

\* push.ts 246-274: isRepo, then checkUpstreamStatus with its fetch
SgPushStart ==
  /\ pc = "sg_push"
  /\ \E isRepo \in BOOLEAN, fetchOk \in BOOLEAN, deleted \in BOOLEAN, setUpstream \in BOOLEAN :
       IF ~isRepo
       THEN ExitHandler(hf, "1") /\ UNCHANGED cmds
       ELSE /\ cmds' = Append(cmds, "fetch")
            /\ IF ~fetchOk
               THEN ExitHandler(hf, "reject")
               ELSE LET frame == [hf EXCEPT !.setUpstream = deleted \/ setUpstream] IN
                    IF deleted /\ ~hf.autoYes
                    THEN hf' = frame /\ pc' = "sg_deleted"
                    ELSE hf' = frame /\ pc' = "sg_tree"
  /\ UNCHANGED <<repoVars, parseVars, pushVars, logged>>
  /\ UNCHANGED <<strategy, interactive, commits, stashResult, resolveResult, outcome>>
  /\ UNCHANGED <<pops, popFailed, popThrew, created, rounds, applied, lastPop, orig>>

\* push.ts 276-307: the remote branch was deleted, push, switch or abort
SgPushDeleted ==
  /\ pc = "sg_deleted"
  /\ \E answer \in {"p", "s", "a"}, checkoutOk \in BOOLEAN :
       IF answer = "s"
       THEN /\ cmds' = cmds \o <<"prompt", "checkout">>
            /\ curBranch' = IF checkoutOk THEN BaseBranch ELSE curBranch
            /\ ExitHandler(hf, IF checkoutOk THEN "0" ELSE "reject")
       ELSE IF answer = "a"
       THEN /\ cmds' = Append(cmds, "prompt")
            /\ ExitHandler(hf, "0")
            /\ UNCHANGED curBranch
       ELSE /\ cmds' = Append(cmds, "prompt")
            /\ pc' = "sg_tree"
            /\ UNCHANGED <<hf, curBranch>>
  /\ UNCHANGED <<headAt, op, todo, um, hd, idx, wt, stash, localBase>>
  /\ UNCHANGED <<parseVars, pushVars, logged>>
  /\ UNCHANGED <<strategy, interactive, commits, stashResult, resolveResult, outcome>>
  /\ UNCHANGED <<pops, popFailed, popThrew, created, rounds, applied, lastPop, orig>>

\* push.ts 309-333 and stageChanges: the state of the tree, then staging
SgPushStage ==
  /\ pc = "sg_tree"
  /\ IF ~hasAnyChanges(hd, idx, wt, um)
     THEN /\ IF hf.unpushed THEN pc' = "sg_pushphase" /\ UNCHANGED hf
                            ELSE ExitHandler(hf, "0")
          /\ UNCHANGED <<idx, cmds>>
     ELSE IF hf.dryRun
     THEN pc' = "sg_lint" /\ UNCHANGED <<hf, idx, cmds>>
     ELSE IF hasStagedChanges(hd, idx, um)
     THEN pc' = "sg_lint" /\ UNCHANGED <<hf, idx, cmds>>
     ELSE \E addOk \in BOOLEAN :
            /\ cmds' = Append(cmds, "add")
            /\ IF ~addOk
               THEN ExitHandler(hf, "reject") /\ UNCHANGED idx
               ELSE /\ idx' = stagedIndex(hf.stageMode)
                    /\ IF hasStagedChanges(hd, idx', um)
                       THEN pc' = "sg_lint" /\ UNCHANGED hf
                       ELSE ExitHandler(hf, "1")
  /\ UNCHANGED <<curBranch, headAt, op, todo, um, hd, wt, stash, localBase>>
  /\ UNCHANGED <<parseVars, pushVars, logged>>
  /\ UNCHANGED <<strategy, interactive, commits, stashResult, resolveResult, outcome>>
  /\ UNCHANGED <<pops, popFailed, popThrew, created, rounds, applied, lastPop, orig>>

\* push.ts 335-339 and runLintOnStagedFiles 134-177
SgPushLint ==
  /\ pc = "sg_lint"
  /\ IF hf.lintStagedCmd /\ ~hf.dryRun /\ StagedPaths(hd, idx, um) # {}
     THEN \E lintOk \in BOOLEAN, addOk \in BOOLEAN :
            IF ~lintOk
            THEN cmds' = Append(cmds, "sh -c lint") /\ ExitHandler(hf, "1")
            ELSE /\ cmds' = cmds \o <<"sh -c lint", "add">>
                 /\ IF addOk THEN pc' = "sg_confirm" /\ UNCHANGED hf
                             ELSE ExitHandler(hf, "reject")
     ELSE pc' = "sg_confirm" /\ UNCHANGED <<hf, cmds>>
  /\ UNCHANGED <<repoVars, parseVars, pushVars, logged>>
  /\ UNCHANGED <<strategy, interactive, commits, stashResult, resolveResult, outcome>>
  /\ UNCHANGED <<pops, popFailed, popThrew, created, rounds, applied, lastPop, orig>>

\* push.ts 344-347: Proceed with commit?
SgPushConfirm ==
  /\ pc = "sg_confirm"
  /\ IF hf.autoYes
     THEN pc' = "sg_commit" /\ UNCHANGED <<hf, cmds>>
     ELSE \E answer \in BOOLEAN :
            /\ cmds' = Append(cmds, "prompt")
            /\ IF answer THEN pc' = "sg_commit" /\ UNCHANGED hf
                         ELSE ExitHandler(hf, "0")
  /\ UNCHANGED <<repoVars, parseVars, pushVars, logged>>
  /\ UNCHANGED <<strategy, interactive, commits, stashResult, resolveResult, outcome>>
  /\ UNCHANGED <<pops, popFailed, popThrew, created, rounds, applied, lastPop, orig>>

\* push.ts 349-354 and generateAndCommit 178-203
SgPushCommit ==
  /\ pc = "sg_commit"
  /\ IF hf.dryRun
     THEN pc' = "sg_pushphase" /\ UNCHANGED <<hf, hd, cmds>>
     ELSE \E generated \in BOOLEAN, commitOk \in BOOLEAN :
            IF ~generated
            THEN ExitHandler(hf, "1") /\ UNCHANGED <<hd, cmds>>
            ELSE /\ cmds' = Append(cmds, "commit")
                 /\ IF commitOk
                    THEN /\ hd' = idx
                         /\ hf' = [hf EXCEPT !.written = Committed]
                         /\ pc' = "sg_pushphase"
                    ELSE /\ ExitHandler([hf EXCEPT !.written = Committed], "1")
                         /\ UNCHANGED hd
  /\ UNCHANGED <<curBranch, headAt, op, todo, um, idx, wt, stash, localBase>>
  /\ UNCHANGED <<parseVars, pushVars, logged>>
  /\ UNCHANGED <<strategy, interactive, commits, stashResult, resolveResult, outcome>>
  /\ UNCHANGED <<pops, popFailed, popThrew, created, rounds, applied, lastPop, orig>>

\* push.ts 357-378: skip the push, preview it, or call performPush
SgPushPhase ==
  /\ pc = "sg_pushphase"
  /\ IF hf.skipPush \/ hf.dryRun
     THEN ExitHandler(hf, "return") /\ UNCHANGED pf
     ELSE /\ pf' = [IdlePush EXCEPT !.setUpstream = hf.setUpstream, !.autoYes = hf.autoYes,
                                    !.syncStrategy = hf.syncStrategy]
          /\ pc' = "push"
          /\ UNCHANGED hf
  /\ UNCHANGED <<repoVars, parseVars, cmds, logged>>
  /\ UNCHANGED <<strategy, interactive, commits, stashResult, resolveResult, outcome>>
  /\ UNCHANGED <<pops, popFailed, popThrew, created, rounds, applied, lastPop, orig>>

\* push.ts 378-389: after performPush, ensurePR or the catch
SgPushAfter ==
  /\ pc = "pushed"
  /\ hf.command = "push"
  /\ IF pf.result = "threw"
     THEN ExitHandler(hf, "1") /\ UNCHANGED cmds
     ELSE IF hf.skipPR
     THEN ExitHandler(hf, "return") /\ UNCHANGED cmds
     ELSE \E prOk \in BOOLEAN :
            /\ cmds' = Append(cmds, "gh pr create")
            /\ ExitHandler(hf, IF prOk THEN "return" ELSE "1")
  /\ UNCHANGED <<repoVars, parseVars, pushVars, logged>>
  /\ UNCHANGED <<strategy, interactive, commits, stashResult, resolveResult, outcome>>
  /\ UNCHANGED <<pops, popFailed, popThrew, created, rounds, applied, lastPop, orig>>

\* commit.ts 92-126: isRepo, then the auto-sync with the base branch, of
\* which only the result is kept here
SgCommitStart ==
  /\ pc = "sg_commit_start"
  /\ \E isRepo \in BOOLEAN, synced \in BOOLEAN :
       IF ~isRepo
       THEN ExitHandler(hf, "1") /\ UNCHANGED cmds
       ELSE IF hf.autoSync /\ hf.syncStrategy # "none" /\ ~hf.dryRun
       THEN /\ cmds' = Append(cmds, "syncWithBase")
            /\ IF synced THEN pc' = "sc_stage" /\ UNCHANGED hf
                         ELSE ExitHandler(hf, "1")
       ELSE pc' = "sc_stage" /\ UNCHANGED <<hf, cmds>>
  /\ UNCHANGED <<repoVars, parseVars, pushVars, logged>>
  /\ UNCHANGED <<strategy, interactive, commits, stashResult, resolveResult, outcome>>
  /\ UNCHANGED <<pops, popFailed, popThrew, created, rounds, applied, lastPop, orig>>

\* commit.ts 128-140: auto-stage when nothing is staged
SgCommitStage ==
  /\ pc = "sc_stage"
  /\ IF hasStagedChanges(hd, idx, um)
     THEN pc' = "sc_lint" /\ UNCHANGED <<hf, idx, cmds>>
     ELSE IF ~(hasUnstagedChanges(idx, wt, um) \/ hasUntrackedFiles(idx, wt))
     THEN ExitHandler(hf, "0") /\ UNCHANGED <<idx, cmds>>
     ELSE IF hf.dryRun
     THEN pc' = "sc_lint" /\ UNCHANGED <<hf, idx, cmds>>
     ELSE \E addOk \in BOOLEAN :
            /\ cmds' = Append(cmds, "add")
            /\ IF addOk
               THEN idx' = stagedIndex("all") /\ pc' = "sc_lint" /\ UNCHANGED hf
               ELSE ExitHandler(hf, "reject") /\ UNCHANGED idx
  /\ UNCHANGED <<curBranch, headAt, op, todo, um, hd, wt, stash, localBase>>
  /\ UNCHANGED <<parseVars, pushVars, logged>>
  /\ UNCHANGED <<strategy, interactive, commits, stashResult, resolveResult, outcome>>
  /\ UNCHANGED <<pops, popFailed, popThrew, created, rounds, applied, lastPop, orig>>

\* commit.ts 142-147 and runLintOnStagedFiles 27-67: a failure of the lint
\* or of the re-staging is caught and the handler goes on
SgCommitLint ==
  /\ pc = "sc_lint"
  /\ IF hf.lintStagedCmd /\ ~hf.dryRun /\ StagedPaths(hd, idx, um) # {}
     THEN cmds' = cmds \o <<"sh -c lint", "add">>
     ELSE UNCHANGED cmds
  /\ pc' = "sc_message"
  /\ UNCHANGED <<repoVars, parseVars, pushVars, cliVars, logged>>
  /\ UNCHANGED <<strategy, interactive, commits, stashResult, resolveResult, outcome>>
  /\ UNCHANGED <<pops, popFailed, popThrew, created, rounds, applied, lastPop, orig>>

\* commit.ts 149-160: generate the message and write it to the message file
SgCommitMessage ==
  /\ pc = "sc_message"
  /\ \E generated \in BOOLEAN :
       IF generated
       THEN hf' = [hf EXCEPT !.written = @ \cup {MsgGenerated}] /\ pc' = "sc_finish"
       ELSE ExitHandler(hf, "1")
  /\ UNCHANGED <<repoVars, parseVars, pushVars, cmds, logged>>
  /\ UNCHANGED <<strategy, interactive, commits, stashResult, resolveResult, outcome>>
  /\ UNCHANGED <<pops, popFailed, popThrew, created, rounds, applied, lastPop, orig>>

\* commit.ts 162-182: commit, preview the commit, or print the options
SgCommitFinish ==
  /\ pc = "sc_finish"
  /\ IF hf.autoCommit /\ ~hf.dryRun
     THEN \E commitOk \in BOOLEAN :
            /\ cmds' = Append(cmds, "commit")
            /\ hd' = IF commitOk THEN idx ELSE hd
            /\ ExitHandler([hf EXCEPT !.written = @ \cup {MsgTemp}],
                           IF commitOk THEN "return" ELSE "reject")
     ELSE ExitHandler(hf, "return") /\ UNCHANGED <<hd, cmds>>
  /\ UNCHANGED <<curBranch, headAt, op, todo, um, idx, wt, stash, localBase>>
  /\ UNCHANGED <<parseVars, pushVars, logged>>
  /\ UNCHANGED <<strategy, interactive, commits, stashResult, resolveResult, outcome>>
  /\ UNCHANGED <<pops, popFailed, popThrew, created, rounds, applied, lastPop, orig>>

CliNext ==
  \/ SgPushStart \/ SgPushDeleted \/ SgPushStage \/ SgPushLint \/ SgPushConfirm
  \/ SgPushCommit \/ SgPushPhase \/ SgPushAfter
  \/ FirstPush \/ NffFetch \/ NffAsk \/ NffSync \/ NffRetry
  \/ SgCommitStart \/ SgCommitStage \/ SgCommitLint \/ SgCommitMessage \/ SgCommitFinish

\* trees the commands are run on: clean, modified, staged, untracked
CliTrees ==
  { <<Base, Base, Base>>, <<Base, Base, Work>>, <<Base, Staged, Staged>>,
    <<Absent, Absent, Work>> }

\* `sg push [stageMode]` or `sg commit [commit]` is started on the feature
\* branch with some options and configuration
CliInit ==
  /\ curBranch = FeatureBranch /\ headAt = "orig" /\ op = "none" /\ todo = 0
  /\ um = NoUnmerged
  /\ \E t \in CliTrees :
       /\ hd  = [p \in Paths |-> IF p = "a" THEN t[1] ELSE Base]
       /\ idx = [p \in Paths |-> IF p = "a" THEN t[2] ELSE Base]
       /\ wt  = [p \in Paths |-> IF p = "a" THEN t[3] ELSE Base]
  /\ stash = <<>> /\ localBase = "uptodate"
  /\ strategy = "rebase" /\ interactive = TRUE /\ commits = 1
  /\ stashResult = NoStash /\ resolveResult = NoResult /\ outcome = NoOutcome
  /\ InitObs
  /\ NoFile
  /\ NoPush
  /\ \/ /\ pc = "sg_push"
        /\ hf \in {[IdleHandler EXCEPT !.command = "push", !.dryRun = d, !.autoYes = y,
                                       !.skipPush = sp, !.skipPR = sr,
                                       !.lintStagedCmd = l, !.stageMode = m,
                                       !.unpushed = u, !.syncStrategy = "rebase"]
                     : d \in BOOLEAN, y \in BOOLEAN, sp \in BOOLEAN, sr \in BOOLEAN,
                       l \in BOOLEAN, m \in {"all", "tracked"}, u \in BOOLEAN}
     \/ /\ pc = "sg_commit_start"
        /\ hf \in {[IdleHandler EXCEPT !.command = "commit", !.dryRun = d,
                                       !.lintStagedCmd = l, !.autoSync = a,
                                       !.autoCommit = c, !.syncStrategy = st]
                     : d \in BOOLEAN, l \in BOOLEAN, a \in BOOLEAN, c \in BOOLEAN,
                       st \in {"rebase", "none"}}

SpecCli == CliInit /\ [][CliNext]_vars

HandlerEnded == pc = "exited"

(***************************************************************************)
(* The handler of `sg squash` (cli/commands/squash.ts)                     *)
(***************************************************************************)
MsgSquash        == ".git/SQUASH_MSG_GENERATED"
MsgStillStashed  == "Your changes are still in the stash. Run 'git stash pop' to restore them."
LogSqStashed     == "Changes stashed successfully"
LogStashFailed   == "Failed to stash changes"
LogAborted       == "Aborted by user"
LogSqRestored    == "Stashed changes restored"
LogRestoreFailed == "Failed to restore stash"

\* the tree of the base branch: the commits to squash added file "b"
mainTree == [p \in Paths |-> IF p = "b" THEN Absent ELSE hd[p]]

\* git stash pop on the present index and working tree: the working tree
\* gets the entry's changes, the files new in the entry stay in the index
plainPop(e) ==
  [ix |-> [p \in Paths |->
             IF idx[p] = Absent /\ e.ix[p] # Absent /\ e.wt[p] # Absent
             THEN e.wt[p] ELSE idx[p]],
   wt |-> [p \in Paths |-> IF Touches(e, p) THEN e.wt[p] ELSE wt[p]]]

\* squash.ts 189-197 and 205-214: `git stash pop` in its try, and what the
\* catch prints
restoreStash(popOk) ==
  IF popOk /\ stash # <<>>
  THEN /\ idx' = plainPop(Head(stash)).ix
       /\ wt' = plainPop(Head(stash)).wt
       /\ stash' = Tail(stash)
       /\ logged' = logged \cup {LogSqRestored}
  ELSE /\ logged' = logged \cup {LogRestoreFailed, MsgStillStashed}
       /\ UNCHANGED <<idx, wt, stash>>

\* squash.ts 70-114: repository, branch, base branch and commit count
SqStart ==
  /\ pc = "sq_start"
  /\ \E isRepo \in BOOLEAN, baseFound \in BOOLEAN, counted \in BOOLEAN,
        commitCount \in 0..2 :
       IF ~isRepo \/ curBranch = BaseBranch
       THEN ExitHandler(hf, "1") /\ UNCHANGED cmds
       ELSE IF ~baseFound
       THEN ExitHandler(hf, "1") /\ cmds' = Append(cmds, "rev-parse")
       ELSE IF ~counted
       THEN ExitHandler(hf, "reject") /\ cmds' = cmds \o <<"rev-parse", "rev-list">>
       ELSE IF commitCount < 2
       THEN ExitHandler(hf, "0") /\ cmds' = cmds \o <<"rev-parse", "rev-list">>
       ELSE /\ cmds' = cmds \o <<"rev-parse", "rev-list", "log">>
            /\ pc' = "sq_stash" /\ UNCHANGED hf
  /\ UNCHANGED <<repoVars, parseVars, pushVars, logged>>
  /\ UNCHANGED <<strategy, interactive, commits, stashResult, resolveResult, outcome>>
  /\ UNCHANGED <<pops, popFailed, popThrew, created, rounds, applied, lastPop, orig>>

\* squash.ts 116-155: the auto-stash of uncommitted changes
SqStash ==
  /\ pc = "sq_stash"
  /\ IF ~(hasUnstagedChanges(idx, wt, um) \/ hasStagedChanges(hd, idx, um))
     THEN pc' = "sq_confirm" /\ UNCHANGED <<hf, idx, wt, stash, cmds, logged>>
     ELSE \E shouldStash \in (IF hf.autoYes THEN {TRUE} ELSE BOOLEAN), pushOk \in BOOLEAN :
            IF ~shouldStash
            THEN /\ cmds' = cmds \o <<"status", "prompt">>
                 /\ logged' = logged \cup {LogAborted}
                 /\ ExitHandler(hf, "0")
                 /\ UNCHANGED <<idx, wt, stash>>
            ELSE /\ cmds' = cmds \o <<"status">>
                            \o (IF hf.autoYes THEN <<>> ELSE <<"prompt">>)
                            \o <<"stash push">>
                 /\ IF pushOk
                    THEN /\ idx' = hd /\ wt' = hd
                         /\ stash' = <<StashEntry(Repo, TRUE)>> \o stash
                         /\ hf' = [hf EXCEPT !.stashCreated = TRUE]
                         /\ logged' = logged \cup {LogSqStashed}
                         /\ pc' = "sq_confirm"
                    ELSE /\ logged' = logged \cup {LogStashFailed}
                         /\ ExitHandler(hf, "1")
                         /\ UNCHANGED <<idx, wt, stash>>
  /\ UNCHANGED <<curBranch, headAt, op, todo, um, hd, localBase>>
  /\ UNCHANGED <<parseVars, pushVars>>
  /\ UNCHANGED <<strategy, interactive, commits, stashResult, resolveResult, outcome>>
  /\ UNCHANGED <<pops, popFailed, popThrew, created, rounds, applied, lastPop, orig>>

\* squash.ts 157-162: the confirmation of the squash
SqConfirm ==
  /\ pc = "sq_confirm"
  /\ IF hf.autoYes
     THEN pc' = "sq_message" /\ UNCHANGED <<hf, cmds, logged>>
     ELSE \E answer \in BOOLEAN :
            /\ cmds' = Append(cmds, "prompt")
            /\ IF answer
               THEN pc' = "sq_message" /\ UNCHANGED <<hf, logged>>
               ELSE logged' = logged \cup {LogAborted} /\ ExitHandler(hf, "0")
  /\ UNCHANGED <<repoVars, parseVars, pushVars>>
  /\ UNCHANGED <<strategy, interactive, commits, stashResult, resolveResult, outcome>>
  /\ UNCHANGED <<pops, popFailed, popThrew, created, rounds, applied, lastPop, orig>>

\* squash.ts 164-182: the commits and the diff are read, the message is
\* generated (generateSquashMessage exits with 1 on failure) and written
SqMessage ==
  /\ pc = "sq_message"
  /\ cmds' = cmds \o <<"log", "diff">>
  /\ \E read \in BOOLEAN, generated \in BOOLEAN :
       IF ~read
       THEN ExitHandler(hf, "reject")
       ELSE IF ~generated
       THEN ExitHandler(hf, "1")
       ELSE hf' = [hf EXCEPT !.written = @ \cup {MsgSquash}] /\ pc' = "sq_squash"
  /\ UNCHANGED <<repoVars, parseVars, pushVars, logged>>
  /\ UNCHANGED <<strategy, interactive, commits, stashResult, resolveResult, outcome>>
  /\ UNCHANGED <<pops, popFailed, popThrew, created, rounds, applied, lastPop, orig>>

\* squash.ts 184-200 with performSquash: reset --soft, commit, and the log
\* of the new commit; any failure restores the stash and exits with 1
SqSquash ==
  /\ pc = "sq_squash"
  /\ \E resetOk \in BOOLEAN, commitOk \in BOOLEAN, shown \in BOOLEAN, popOk \in BOOLEAN :
       LET issued == <<"reset --soft">>
                       \o (IF resetOk THEN <<"commit">> ELSE <<>>)
                       \o (IF resetOk /\ commitOk THEN <<"log -1">> ELSE <<>>)
       IN /\ (~resetOk => commitOk /\ shown) /\ (~commitOk => shown)
          /\ hd' = IF resetOk /\ ~commitOk THEN mainTree ELSE hd
          /\ headAt' = IF ~resetOk THEN headAt
                       ELSE IF commitOk THEN "squashed" ELSE "base"
          /\ IF resetOk /\ commitOk /\ shown
             THEN /\ cmds' = cmds \o issued
                  /\ pc' = "sq_restore"
                  /\ UNCHANGED <<hf, idx, wt, stash, logged>>
             ELSE /\ ExitHandler(hf, "1")
                  /\ IF hf.stashCreated
                     THEN /\ cmds' = cmds \o issued \o <<"stash pop">>
                          /\ restoreStash(popOk)
                     ELSE /\ cmds' = cmds \o issued
                          /\ popOk
                          /\ UNCHANGED <<idx, wt, stash, logged>>
  /\ UNCHANGED <<curBranch, op, todo, um, localBase>>
  /\ UNCHANGED <<parseVars, pushVars>>
  /\ UNCHANGED <<strategy, interactive, commits, stashResult, resolveResult, outcome>>
  /\ UNCHANGED <<pops, popFailed, popThrew, created, rounds, applied, lastPop, orig>>

\* squash.ts 202-215: the stash is restored before the push
SqRestore ==
  /\ pc = "sq_restore"
  /\ IF hf.stashCreated
     THEN \E popOk \in BOOLEAN :
            /\ cmds' = Append(cmds, "stash pop")
            /\ restoreStash(popOk)
     ELSE UNCHANGED <<idx, wt, stash, cmds, logged>>
  /\ pc' = "sq_push"
  /\ UNCHANGED <<curBranch, headAt, op, todo, um, hd, localBase>>
  /\ UNCHANGED <<parseVars, pushVars, cliVars>>
  /\ UNCHANGED <<strategy, interactive, commits, stashResult, resolveResult, outcome>>
  /\ UNCHANGED <<pops, popFailed, popThrew, created, rounds, applied, lastPop, orig>>

\* squash.ts 217-235: git.push(currentBranch, true) unless --skip-push
SqPush ==
  /\ pc = "sq_push"
  /\ IF hf.skipPush
     THEN ExitHandler(hf, "return") /\ UNCHANGED cmds
     ELSE \E pushOk \in BOOLEAN :
            /\ cmds' = Append(cmds, pushCommand(TRUE, FALSE, FALSE))
            /\ ExitHandler(hf, IF pushOk THEN "return" ELSE "1")
  /\ UNCHANGED <<repoVars, parseVars, pushVars, logged>>
  /\ UNCHANGED <<strategy, interactive, commits, stashResult, resolveResult, outcome>>
  /\ UNCHANGED <<pops, popFailed, popThrew, created, rounds, applied, lastPop, orig>>

SquashNext ==
  SqStart \/ SqStash \/ SqConfirm \/ SqMessage \/ SqSquash \/ SqRestore \/ SqPush

\* `sg squash [-y] [--skip-push]` is started on some working tree, with
\* or without an older entry on the stash
SquashInit ==
  /\ InitRepo
  /\ localBase = "uptodate"
  /\ strategy = "rebase" /\ interactive = TRUE /\ commits = 1
  /\ stashResult = NoStash /\ resolveResult = NoResult /\ outcome = NoOutcome
  /\ InitObs
  /\ NoFile
  /\ NoPush
  /\ pc = "sq_start"
  /\ hf \in {[IdleHandler EXCEPT !.command = "squash", !.autoYes = y, !.skipPush = sp]
               : y \in BOOLEAN, sp \in BOOLEAN}

SpecSquash == SquashInit /\ [][SquashNext]_vars

\* positions of a command in the run
At(c) == {i \in DOMAIN cmds : cmds[i] = c}

\* every position of A comes before every position of B
Before(A, B) == \A i \in A, j \in B : i < j

\* a run of `sg push` that committed, pushed and returned
PushedRun ==
  /\ HandlerEnded /\ hf.command = "push" /\ hf.exit = "return"
  /\ At("commit") # {} /\ Pushes # {}

\* C33: a successful `sg push` run performs its steps in the documented order
\* stage, lint, commit, rebase, push, create PR: the rebase against the base
\* branch comes after the commit and no push is issued before it.
C33_DocumentedOrder ==
  PushedRun =>
    /\ Before(At("sh -c lint"), At("commit"))
    /\ Before(At("commit"), Pushes)
    /\ Before(Pushes, At("gh pr create"))
    /\ \E r \in Syncs : Before(At("commit"), {r}) /\ Before({r}, Pushes)

\* commands that change the repository
Mutating ==
  {"add", "commit", "stash push", "stash pop", "stash pop --index",
   "rebase", "merge", "checkout", "syncWithBase"} \cup PushCommands

\* C34: with --dry-run, `sg push` and `sg commit` execute no
\* repository-mutating command and write no file, on every path and for
\* every answer to their prompts.
C34_DryRunMutatesNothing ==
  hf.dryRun =>
    /\ \A i \in DOMAIN cmds : cmds[i] \notin Mutating
    /\ hf.written = {}

\* every block of the file got a current, incoming or both answer
AllResolved ==
  /\ PassReturned /\ ~rs.ret.aborted
  /\ Len(rs.answers) = Len(source.blocks)
  /\ \A j \in DOMAIN rs.answers : rs.answers[j].choice \in Resolutions

\* the answer given for the k-th block of the file
ChoiceOf(k) ==
  LET j == CHOOSE j \in DOMAIN rs.answers :
             rs.answers[j].startLine = rs.results[1].conflicts[k].startLine
  IN rs.answers[j].choice

\* the lines chosen from a block
chosenLines(b, choice) ==
  CASE choice = "current"  -> b.current
    [] choice = "incoming" -> b.incoming
    [] choice = "both"     -> b.current \o b.incoming

\* blocks k.. of the source with each span replaced by the chosen lines
RECURSIVE replacedFrom(_)
replacedFrom(k) ==
  IF k > Len(source.blocks) THEN <<>>
  ELSE chosenLines(source.blocks[k], ChoiceOf(k)) \o source.blocks[k].after
       \o replacedFrom(k + 1)

\* the original content with each block's span replaced by the chosen text
Replaced ==
  LET ls == source.head \o replacedFrom(1)
  IN IF ls = <<>> THEN <<Blank>> ELSE ls

\* C35: for a file with k >= 1 parsed blocks, each answered current, incoming
\* or both, the content written by resolveFileConflicts is the original
\* content with each block's span replaced by the chosen text and every
\* other line unchanged and in the same order.
C35_WrittenIsReplaced ==
  AllResolved => (disk[1].written /\ disk[1].lines = Replaced)

\* the entry stashChanges pushed, as the index and working tree were then
CapturedEntry == [hd |-> hd, ix |-> orig.idx, wt |-> orig.wt, at |-> "orig", auto |-> TRUE]

\* the recorded paths that are tracked once the plain pop has applied the entry
TrackedRecorded ==
  {p \in stashResult.stagedFiles : PlainApplied(CapturedEntry).ix[p] # Absent}

\* stashPop returned success from its fallback path
PlainPopSucceeded ==
  pc = "rt_done" /\ lastPop.how = "plain" /\ lastPop.success

\* C36: in stashPop the plain `stash pop` is attempted only after
\* `stash pop --index` failed; after a successful plain pop the paths
\* re-staged are exactly the recorded stagedFiles that are tracked then; no
\* path that was not staged at capture time is staged by stashPop.
C36_RestagesOnlyRecorded ==
  /\ \A i \in DOMAIN cmds :
       cmds[i] = FallbackPop =>
         (i > 1 /\ cmds[i - 1] = "stash pop --index" /\ lastPop.how # "index")
  /\ PlainPopSucceeded =>
       /\ \A p \in TrackedRecorded : idx[p] = wt[p]
       /\ \A p \in Paths \ TrackedRecorded : idx[p] = PlainApplied(CapturedEntry).ix[p]
       /\ Issued("add") <=> TrackedRecorded # {}
  /\ (pc = "rt_done" /\ lastPop.success) =>
       StagedPaths(hd, idx, um) \subseteq stashResult.stagedFiles

\* C36 witness: the fallback re-staged a recorded path while another path,
\* modified but not staged at capture time, was left unstaged
C36_Witness ==
  /\ PlainPopSucceeded /\ Issued("add")
  /\ \E p \in Paths :
       /\ p \notin stashResult.stagedFiles
       /\ orig.wt[p] # hd[p] /\ orig.idx[p] = hd[p] /\ hd[p] # Absent
       /\ idx[p] = hd[p] /\ wt[p] = orig.wt[p]

\* C37: a file is counted in filesResolved by resolveConflictsInteractively
\* only if, at the end of the pass, its content on disk contains no conflict
\* block and it has been staged.
C37_CountedOnlyIfClean ==
  (PassReturned /\ rs.ret.filesResolved >= 1) =>
    (disk[1].staged /\ parseConflicts(disk[1].lines) = <<>>)

\* `sg squash` has ended after it created its auto-stash
SquashEndedStashed ==
  HandlerEnded /\ hf.command = "squash" /\ hf.stashCreated

\* C38: in `sg squash`, once the auto-stash has been created, every way the
\* command ends either pops the stash or tells the operator that the
\* changes are still in the stash.
C38_StashPoppedOrTold ==
  SquashEndedStashed =>
    (Issued("stash pop") \/ MsgStillStashed \in logged)

=============================================================================
